---- MODULE Spec2Model ----
(***************************************************************************)
(* Model of carya's chunking core: the UnifiedStrategy (internal/chunk/    *)
(* unified.go), the lifecycle Manager (internal/chunk/manager.go) and the  *)
(* Engine front (internal/engine) that stamps change events.               *)
(*                                                                         *)
(* Time is an integer number of clock ticks; TicksPerSecond ticks make a   *)
(* second, so that time.Time.Unix() (whole seconds) is a real truncation.  *)
(* Byte strings are sequences of byte values.  Every Manager operation     *)
(* holds Manager.mu from its first to its last statement, so each is one   *)
(* atomic action.                                                          *)
(***************************************************************************)
EXTENDS Integers, Sequences, FiniteSets, TLC

VARIABLES
    now,          \* the wall clock read by time.Now()
    active,       \* UnifiedStrategy.activeChunks: path -> activeChunk (a Go map)
    isIdle,       \* Manager.isIdle
    lastActivity, \* Manager.lastActivity
    tickerPeriod, \* the duration Manager.ticker was last created / Reset with
    tickerOn,     \* Manager.ticker is armed (NewTicker / Reset) and not Stop()ped
    nextTick,     \* the time at which the armed ticker next fires
    tickReady,    \* a tick is waiting in ticker.C (a channel of capacity 1)
    loop,         \* flushLoop goroutine: "new" (not started), "run", "done"
    stopped,      \* Manager.stopCh is closed
    hist,         \* history: per path, what the events delivered for it were
    flipped,      \* history: a change event has ended Idle and no tick has run since
    last          \* history: the operation performed by the last step and its outputs

vars == <<now, active, isIdle, lastActivity, tickerPeriod, tickerOn, nextTick,
          tickReady, loop, stopped, hist, flipped, last>>

\* computeSimpleDiff taken alone (specification DiffSpec)
VARIABLES
    diffOld,      \* the argument oldLines
    diffNew,      \* the argument newLines
    diffText      \* the text returned, Pending before the call

diffVars == <<diffOld, diffNew, diffText>>

\* Watcher.shouldIgnore taken alone (specification MatchSpec)
VARIABLES
    matchPath,    \* the argument path, relative to watchDir
    matchRule,    \* the one rule in gitignoreRules
    matchIsDir,   \* the argument isDir
    matchResult   \* the result: "pending" before the call, then "true" or "false"

matchVars == <<matchPath, matchRule, matchIsDir, matchResult>>

\* The Watcher (specifications WatcherSpec and WatcherLive)
VARIABLES
    dirs,            \* the directories that exist beneath watchDir, watchDir included
    watched,         \* the directories registered with w.fsWatcher (Add / Remove / Close)
    gitignoreRules,  \* Watcher.gitignoreRules
    walk,            \* Start: "new" (not called), "walking", "done" (returned nil), "failed"
    todo,            \* the directories filepath.Walk has still to visit, in order
    watchLoop,       \* the watchLoop goroutine: "none", "select", "busy" (in handleEvent), "done"
    fsEvent,         \* the notification watchLoop has received and is handling
    watcherStopCh,   \* Watcher.stopCh is closed
    fsWatcherClosed, \* w.fsWatcher is closed: the OS handle is released
    handled          \* history: the notification handled last and what handleEvent did

watcherVars == <<dirs, watched, gitignoreRules, walk, todo, watchLoop, fsEvent,
                 watcherStopCh, fsWatcherClosed, handled>>

\* Manager.mu statement by statement (specification LockSpec)
VARIABLES
    mu,       \* Manager.mu is locked
    pc,       \* for each goroutine, the statement it is at
    tracked,  \* the paths the Strategy holds an active chunk for
    batch     \* the chunks the flush in progress has removed and not yet saved

lockVars == <<mu, pc, tracked, batch>>

\* The stores (specification StoreSpec): a JSONStore and a SQLiteStore that
\* get the same calls
VARIABLES
    jsonChunks,  \* JSONStore.chunks
    sqlChunks,   \* the rows of the SQLiteStore's table chunks
    storeNow,    \* CURRENT_TIMESTAMP, in whole seconds
    recency,     \* history: the chunk last saved under each id, the last saved first
    storeLast    \* history: the last call and what each store returned

storeVars == <<jsonChunks, sqlChunks, storeNow, recency, storeLast>>

\* what the steps of one part of the model leave alone
outsideManager == <<diffVars, matchVars, watcherVars, lockVars, storeVars>>
outsideDiff    == <<vars, matchVars, watcherVars, lockVars, storeVars>>
outsideMatch   == <<vars, diffVars, watcherVars, lockVars, storeVars>>
outsideWatcher == <<vars, diffVars, matchVars, lockVars, storeVars>>
outsideLock    == <<vars, diffVars, matchVars, watcherVars, storeVars>>
outsideStore   == <<vars, diffVars, matchVars, watcherVars, lockVars>>

----------------------------------------------------------------------------
(* Bounds of the model *)

TicksPerSecond == 2
MaxSlots == 3
MaxPhase == 1
MaxLines == 5
MaxDepth == 2
MaxSecond == 1
MaxLimit == 2

(* Time *)

Second == TicksPerSecond
Minute == 60 * Second

DefaultFlushTimeout == 15 * Minute
activeInterval == 5 * Minute
idleInterval == 30 * Minute
idleThreshold == 5 * Minute

\* The instants the clock is observed at: the first ticks (all within the first
\* second), the multiples of the active interval, and the instant the first
\* tick of an Idle entered at the first tick is due at.
TimePoints == (0..MaxPhase) \cup { s * activeInterval : s \in 1..MaxSlots }
              \cup {activeInterval + idleInterval}

\* time.Time.Unix(): whole seconds
Unix(t) == t \div TicksPerSecond

----------------------------------------------------------------------------
(* Data *)

Paths == {"a.txt", "b.txt"}

NL == 10
V1 == <<118, 49>>
V2 == <<118, 50>>
V3 == <<118, 49, NL, 118, 50>>
Contents == {V1, V2, V3}

\* The change events of the model: a.txt is written with two contents,
\* b.txt is only ever saved with the same content.
Events == {<<"a.txt", V1>>, <<"a.txt", V2>>, <<"b.txt", V3>>}

RECURSIVE SumBytes(_)
SumBytes(s) == IF s = <<>> THEN 0 ELSE Head(s) + SumBytes(Tail(s))

\* hashContent: the hex SHA-256 digest of the content.  A digest is modelled by
\* what the code uses of it: equality of digests is equality of contents
\* (collision freedom, field "sum"), and its first 8 hex characters (field
\* "short") are a many-to-one function of the content.
hashContent(content) == [short |-> SumBytes(content) % 16, sum |-> content]

\* h[:8]
Short8(h) == h.short

----------------------------------------------------------------------------
(* Diff generation (unified.go) *)

\* text[from:to) of a byte string, 1-based positions from..to-1
Slice(text, from, to) == SubSeq(text, from, to - 1)

\* the loop of splitLines: i is the next position, start the start of the
\* current line, lines the lines found so far
RECURSIVE splitLoop(_, _, _, _)
splitLoop(text, i, start, lines) ==
    IF i > Len(text)
    THEN IF start <= Len(text) THEN Append(lines, Slice(text, start, Len(text) + 1))
                               ELSE lines
    ELSE IF text[i] = NL
         THEN splitLoop(text, i + 1, i + 1, Append(lines, Slice(text, start, i)))
         ELSE splitLoop(text, i + 1, start, lines)

splitLines(text) == IF text = <<>> THEN <<>> ELSE splitLoop(text, 1, 1, <<>>)

RECURSIVE commonPrefixFrom(_, _, _)
commonPrefixFrom(oldLines, newLines, n) ==
    IF n < Len(oldLines) /\ n < Len(newLines) /\ oldLines[n + 1] = newLines[n + 1]
    THEN commonPrefixFrom(oldLines, newLines, n + 1)
    ELSE n

\* commonSuffixFrom with a slip: the suffix may run into the prefix
RECURSIVE commonSuffixOverPrefix(_, _, _, _)
commonSuffixOverPrefix(oldLines, newLines, prefix, n) ==
    IF /\ n < Len(oldLines)
       /\ n < Len(newLines)
       /\ oldLines[Len(oldLines) - n] = newLines[Len(newLines) - n]
    THEN commonSuffixOverPrefix(oldLines, newLines, prefix, n + 1)
    ELSE n

RECURSIVE commonSuffixFrom(_, _, _, _)
commonSuffixFrom(oldLines, newLines, prefix, n) ==
    IF /\ n < Len(oldLines) - prefix
       /\ n < Len(newLines) - prefix
       /\ oldLines[Len(oldLines) - n] = newLines[Len(newLines) - n]
    THEN commonSuffixFrom(oldLines, newLines, prefix, n + 1)
    ELSE n

Max(a, b) == IF a > b THEN a ELSE b
Min(a, b) == IF a < b THEN a ELSE b

\* lines[from+1 .. to] (Go's half-open index range from..to-1), each with a marker
Marked(marker, lines, from, to) ==
    [k \in 1..Max(to - from, 0) |-> <<marker>> \o lines[from + k]]

MarkContext == 32
MarkRemoved == 45
MarkAdded == 43
ContextLines == 3

\* The text of a diff is kept structured: the header fields, the numbers of the
\* hunk marker "@@ -1,n +1,m @@" and the marked lines that follow it.  The
\* empty string is EmptyText.
NoHeader == [path |-> "", old |-> -1, new |-> -1]
EmptyBody == [hunk |-> <<0, 0>>, lines |-> <<>>]
EmptyText == [header |-> NoHeader, hunk |-> <<0, 0>>, lines |-> <<>>]

\* no text yet: the function has not returned
Pending == [hunk |-> <<>>, lines |-> <<>>]

computeSimpleDiff(oldLines, newLines) ==
    IF Max(Len(oldLines), Len(newLines)) = 0 THEN EmptyBody
    ELSE LET commonPrefix == commonPrefixFrom(oldLines, newLines, 0)
             commonSuffix == commonSuffixFrom(oldLines, newLines, commonPrefix, 0)
             contextStart == Max(commonPrefix - ContextLines, 0)
             contextEnd   == Min(Len(oldLines) - commonSuffix + ContextLines, Len(oldLines))
         IN [hunk  |-> <<Len(oldLines), Len(newLines)>>,
             lines |-> Marked(MarkContext, oldLines, contextStart, commonPrefix)
                       \o Marked(MarkRemoved, oldLines, commonPrefix, Len(oldLines) - commonSuffix)
                       \o Marked(MarkAdded, newLines, commonPrefix, Len(newLines) - commonSuffix)
                       \o Marked(MarkContext, oldLines, Len(oldLines) - commonSuffix, contextEnd)]

\* generateDiff with a slip: the old side is taken to be an empty file
generateDiffFromEmpty(ac) ==
    LET body == computeSimpleDiff(<<>>, splitLines(ac.latestContent))
    IN [header |-> [path |-> ac.chunk.FilePath,
                    old  |-> Short8(ac.initialHash),
                    new  |-> Short8(ac.chunk.Hash)],
        hunk   |-> body.hunk,
        lines  |-> body.lines]

generateDiff(ac) ==
    LET body == computeSimpleDiff(splitLines(ac.initialContent), splitLines(ac.latestContent))
    IN [header |-> [path |-> ac.chunk.FilePath,
                    old  |-> Short8(ac.initialHash),
                    new  |-> Short8(ac.chunk.Hash)],
        hunk   |-> body.hunk,
        lines  |-> body.lines]

----------------------------------------------------------------------------
(* UnifiedStrategy (unified.go).  Each method runs under UnifiedStrategy.mu *)
(* and is a function from the activeChunks table to the table it leaves.   *)

flushTimeout == DefaultFlushTimeout

\* ChunkID(fmt.Sprintf("%s-%d", event.Path, event.Time.Unix()))
ChunkID(path, t) == <<path, Unix(t)>>

NoID == <<>>

\* the activeChunk OnFileChange creates for the first event of a path
NewActiveChunk(event) ==
    [chunk |-> [ID        |-> ChunkID(event.Path, event.Time),
                FilePath  |-> event.Path,
                Diff      |-> EmptyText,
                StartTime |-> event.Time,
                EndTime   |-> event.Time,
                Hash      |-> hashContent(event.Contents),
                Manual    |-> FALSE],
     lastUpdate     |-> event.Time,
     initialHash    |-> hashContent(event.Contents),
     initialContent |-> event.Contents,
     latestContent  |-> event.Contents]

\* UpdatedActiveChunk with a slip: lastUpdate is not moved
UpdatedActiveChunkStaleClock(ac, event) ==
    [ac EXCEPT !.chunk.EndTime = event.Time,
               !.chunk.Hash    = hashContent(event.Contents),
               !.latestContent = event.Contents]

\* UpdatedActiveChunk with a slip: the latest bytes are not replaced
UpdatedActiveChunkKeepsBytes(ac, event) ==
    [ac EXCEPT !.chunk.EndTime = event.Time,
               !.lastUpdate    = event.Time,
               !.chunk.Hash    = hashContent(event.Contents)]

\* the update OnFileChange makes to a tracked path whose hash has changed
UpdatedActiveChunk(ac, event) ==
    [ac EXCEPT !.chunk.EndTime = event.Time,
               !.lastUpdate    = event.Time,
               !.chunk.Hash    = hashContent(event.Contents),
               !.latestContent = event.Contents]

\* StrategyOnFileChange with a slip: the new hash is compared with the chunk's
\* current hash instead of its initial hash
StrategyOnFileChangeLatestHash(tbl, event) ==
    IF event.Path \notin DOMAIN tbl
    THEN (event.Path :> NewActiveChunk(event)) @@ tbl
    ELSE IF tbl[event.Path].chunk.Hash = hashContent(event.Contents)
         THEN tbl
         ELSE [tbl EXCEPT ![event.Path] = UpdatedActiveChunk(@, event)]

StrategyOnFileChange(tbl, event) ==
    IF event.Path \notin DOMAIN tbl
    THEN (event.Path :> NewActiveChunk(event)) @@ tbl
    ELSE IF tbl[event.Path].initialHash = hashContent(event.Contents)
         THEN tbl
         ELSE [tbl EXCEPT ![event.Path] = UpdatedActiveChunk(@, event)]

\* delete(s.activeChunks, path) for every path of gone
Without(tbl, gone) == [p \in DOMAIN tbl \ gone |-> tbl[p]]

\* Flushed with a slip: the diff is not generated
FlushedWithoutDiff(ac) == ac.chunk

\* active.chunk.Diff = s.generateDiff(active); flushed = append(flushed, *active.chunk)
Flushed(ac) == [ac.chunk EXCEPT !.Diff = generateDiff(ac)]

\* IsStale with a slip: the operands of the subtraction are swapped
IsStaleOperandsSwapped(ac, t) == ac.lastUpdate - t >= flushTimeout

\* IsStale with a slip: > for >=
IsStaleStrictlyOlder(ac, t) == t - ac.lastUpdate > flushTimeout

\* the condition under which FlushStaleChunks flushes an entry
IsStale(ac, t) == t - ac.lastUpdate >= flushTimeout

StalePaths(tbl, t) == {p \in DOMAIN tbl : IsStale(tbl[p], t)}

\* the orders in which a range over a Go map may visit the keys S
Orders(S) == {o \in [1..Cardinality(S) -> S] : \A i, j \in DOMAIN o : o[i] = o[j] => i = j}

\* StrategyFlushStaleChunks with a slip: the flushed entries are not deleted
StrategyFlushStaleChunksKeepsEntries(tbl, t, order) ==
    [table  |-> tbl,
     chunks |-> [i \in DOMAIN order |-> Flushed(tbl[order[i]])]]

\* FlushStaleChunks(now), the map being ranged over in the given order
StrategyFlushStaleChunks(tbl, t, order) ==
    [table  |-> Without(tbl, StalePaths(tbl, t)),
     chunks |-> [i \in DOMAIN order |-> Flushed(tbl[order[i]])]]

\* StrategyFlushAll with a slip: the flushed entries are not deleted
StrategyFlushAllKeepsEntries(tbl, order) ==
    [table  |-> tbl,
     chunks |-> [i \in DOMAIN order |-> Flushed(tbl[order[i]])]]

\* StrategyFlushAll with a slip: the entries that are not stale are skipped
StrategyFlushAllOnlyStale(tbl, order) ==
    LET stale == SelectSeq(order, LAMBDA p : IsStale(tbl[p], now))
    IN [table  |-> Without(tbl, StalePaths(tbl, now)),
        chunks |-> [i \in DOMAIN stale |-> Flushed(tbl[stale[i]])]]

\* FlushAll(), the map being ranged over in the given order
StrategyFlushAll(tbl, order) ==
    [table  |-> Without(tbl, DOMAIN tbl),
     chunks |-> [i \in DOMAIN order |-> Flushed(tbl[order[i]])]]

\* StrategyForceFlush with a slip: the chunk is not marked manual
StrategyForceFlushNotManual(tbl, filePath) ==
    IF filePath \notin DOMAIN tbl
    THEN [table |-> tbl, chunks |-> <<>>]
    ELSE [table  |-> Without(tbl, {filePath}),
          chunks |-> <<Flushed(tbl[filePath])>>]

\* ForceFlush(filePath): chunks is empty for the nil result
StrategyForceFlush(tbl, filePath) ==
    IF filePath \notin DOMAIN tbl
    THEN [table |-> tbl, chunks |-> <<>>]
    ELSE [table  |-> Without(tbl, {filePath}),
          chunks |-> <<[Flushed(tbl[filePath]) EXCEPT !.Manual = TRUE]>>]

----------------------------------------------------------------------------
(* History of the events of each path, kept beside the program's state     *)

\* No event since the path's last flush; flushedID is the ID of the Chunk that
\* flush produced (NoID before the first flush, and once the path is tracked
\* again).
NoHistory(id) == [tracked |-> FALSE, flushedID |-> id, firstTime |-> 0, firstContents |-> <<>>,
                  changeTime |-> 0, changeContents |-> <<>>, sameOnly |-> TRUE]

\* firstTime/firstContents: the first event since the last flush; changeTime/
\* changeContents: the last event since whose hash differs from the first
\* one's (the first event itself while there is none); sameOnly: there is none.
Delivered(h, event) ==
    IF ~h.tracked
    THEN [tracked |-> TRUE, flushedID |-> NoID,
          firstTime |-> event.Time, firstContents |-> event.Contents,
          changeTime |-> event.Time, changeContents |-> event.Contents, sameOnly |-> TRUE]
    ELSE IF hashContent(event.Contents) = hashContent(h.firstContents)
         THEN h
         ELSE [h EXCEPT !.changeTime = event.Time, !.changeContents = event.Contents,
                        !.sameOnly = FALSE]

\* the chunk a batch holds for path p, as a set (empty when it holds none)
ChunksOf(chunks, p) == {chunks[i] : i \in {j \in DOMAIN chunks : chunks[j].FilePath = p}}

\* the history after a step that flushed the chunks
NoteFlushed(chunks) ==
    hist' = [p \in Paths |->
               IF ChunksOf(chunks, p) # {}
               THEN NoHistory((CHOOSE c \in ChunksOf(chunks, p) : TRUE).ID)
               ELSE hist[p]]

----------------------------------------------------------------------------
(* Manager (manager.go).  The daemon (cmd/carya/view.go) starts the Manager  *)
(* right after constructing it and before the watcher; on shutdown it      *)
(* stops the watcher, then the Manager, and exits.  So nothing but Start   *)
(* happens before Start, and after Stop no time passes, no change event    *)
(* arrives and no flush is requested: only flushLoop may still run.        *)

timer == <<tickerPeriod, tickerOn, nextTick>>

\* The Manager's mode and the ticker it drives
Mode == [isIdle |-> isIdle, tickerPeriod |-> tickerPeriod,
         tickerOn |-> tickerOn, nextTick |-> nextTick]

\* m.ticker.Reset(d) at time t
TickerReset(m, d, t) == [m EXCEPT !.tickerPeriod = d, !.tickerOn = TRUE, !.nextTick = t + d]

\* switchToIdleMode with a slip: the ticker is not Reset
switchToIdleModeNoReset(m, t) == [m EXCEPT !.isIdle = TRUE]

switchToIdleMode(m, t) ==
    IF m.isIdle THEN m
    ELSE TickerReset([m EXCEPT !.isIdle = TRUE], idleInterval, t)

\* switchToActiveMode with a slip: the ticker is not Reset
switchToActiveModeNoReset(m, t) == [m EXCEPT !.isIdle = FALSE]

\* switchToActiveMode with a slip: the Manager stays Idle
switchToActiveModeStaysIdle(m, t) == m

switchToActiveMode(m, t) ==
    IF ~m.isIdle THEN m
    ELSE TickerReset([m EXCEPT !.isIdle = FALSE], activeInterval, t)

SetMode(m) ==
    /\ isIdle' = m.isIdle
    /\ tickerPeriod' = m.tickerPeriod
    /\ tickerOn' = m.tickerOn
    /\ nextTick' = m.nextTick

\* what the last step did; the fields an operation does not set keep these
\* values.  calls: the calls the step made on the ChunkStore and on the
\* EventEmitter, in the order it made them; err: the operation returned an
\* error; wasIdle and afterFlip are isIdle and flipped before the step.
Quiet(op) == [op |-> op, path |-> "", contents |-> <<>>, flush |-> "none",
              chunks |-> <<>>, calls |-> <<>>, err |-> FALSE,
              wasIdle |-> FALSE, afterFlip |-> FALSE]

\* m.store.SaveChunk(chunk) and whether it returned nil
SaveChunk(chunk, ok) == [call |-> "SaveChunk", chunks |-> <<chunk>>, ok |-> ok]

\* m.emitter.EmitChunkCreated(chunk) and m.emitter.EmitChunkFlushed(chunks)
EmitChunkCreated(chunk) == [call |-> "EmitChunkCreated", chunks |-> <<chunk>>, ok |-> TRUE]
EmitChunkFlushed(chunks) == [call |-> "EmitChunkFlushed", chunks |-> chunks, ok |-> TRUE]

\* SaveEach with a slip: the loop ends at the first save that fails
SaveEachUntilError(chunks, fail) ==
    LET failed == {i \in DOMAIN chunks : chunks[i].FilePath \in fail}
        n == IF failed = {} THEN Len(chunks) ELSE CHOOSE i \in failed : \A j \in failed : i <= j
    IN [i \in 1..n |-> SaveChunk(chunks[i], chunks[i].FilePath \notin fail)]

\* the loop over the batch: m.store.SaveChunk for every chunk, in order, going
\* on after an error; the store fails the chunks of the paths in fail
SaveEach(chunks, fail) ==
    [i \in DOMAIN chunks |-> SaveChunk(chunks[i], chunks[i].FilePath \notin fail)]

\* SaveAndEmit with a slip: the emitter is notified before the saves
SaveAndEmitFirst(chunks, fail) ==
    IF Len(chunks) = 0
    THEN <<>>
    ELSE <<EmitChunkFlushed(chunks)>> \o SaveEach(chunks, fail)

\* the tail shared by flushStaleChunksLocked and flushAllChunksLocked, from the
\* len(chunks) == 0 test on: the calls made
SaveAndEmit(chunks, fail) ==
    IF Len(chunks) = 0
    THEN <<>>
    ELSE SaveEach(chunks, fail) \o <<EmitChunkFlushed(chunks)>>

\* SaveAndEmitCreated with a slip: a nil chunk is reported as an error
SaveAndEmitCreatedNilIsError(chunks, fail) ==
    IF Len(chunks) = 0
    THEN [calls |-> <<>>, err |-> TRUE]
    ELSE LET sv == SaveEach(chunks, fail)
         IN IF ~sv[1].ok
            THEN [calls |-> sv, err |-> TRUE]
            ELSE [calls |-> sv \o <<EmitChunkCreated(chunks[1])>>, err |-> FALSE]

\* SaveAndEmitCreated with a slip: the emitter is notified though the save failed
SaveAndEmitCreatedEmitsAnyway(chunks, fail) ==
    IF Len(chunks) = 0
    THEN [calls |-> <<>>, err |-> FALSE]
    ELSE LET sv == SaveEach(chunks, fail)
         IN [calls |-> sv \o <<EmitChunkCreated(chunks[1])>>, err |-> ~sv[1].ok]

\* Manager.ForceFlush from the chunk == nil test on (chunks is empty for nil):
\* the calls made and whether an error is returned
SaveAndEmitCreated(chunks, fail) ==
    IF Len(chunks) = 0
    THEN [calls |-> <<>>, err |-> FALSE]
    ELSE LET sv == SaveEach(chunks, fail)
         IN IF ~sv[1].ok
            THEN [calls |-> sv, err |-> TRUE]
            ELSE [calls |-> sv \o <<EmitChunkCreated(chunks[1])>>, err |-> FALSE]

\* ManagerOnFileChange with a slip: the activity clock is reset only when the
\* strategy has taken the event
ManagerOnFileChangeClockOnUpdate(path, contents, stamp, drain) ==
    LET event == [Path |-> path, Contents |-> contents, Time |-> stamp]
        m     == switchToActiveMode(Mode, now)
        tbl   == StrategyOnFileChange(active, event)
    IN /\ loop # "new"
       /\ ~stopped
       /\ lastActivity' = IF tbl # active THEN now ELSE lastActivity
       /\ SetMode(m)
       /\ tickReady' = IF isIdle /\ drain THEN FALSE ELSE tickReady
       /\ active' = tbl
       /\ hist' = [hist EXCEPT ![path] = Delivered(@, event)]
       /\ flipped' = (flipped \/ isIdle)
       /\ last' = [Quiet("onFileChange") EXCEPT !.path = path, !.contents = contents,
                                                !.wasIdle = isIdle]
       /\ UNCHANGED <<now, loop, stopped>>
       /\ UNCHANGED outsideManager

\* Engine.OnFileChange stamps the event with time.Now() (at stamp), then
\* Manager.OnFileChange takes the lock and reads time.Now() again (at now).
\* The watcher delivers events from one goroutine, so an event is stamped
\* after the previous delivery has set lastActivity; the wait for the lock is
\* taken to end within the second the event was stamped in.
ManagerOnFileChange(path, contents, stamp, drain) ==
    LET event == [Path |-> path, Contents |-> contents, Time |-> stamp]
        m     == switchToActiveMode(Mode, now)
    IN /\ loop # "new"
       /\ ~stopped
       /\ lastActivity' = now
       /\ SetMode(m)
       /\ tickReady' = IF isIdle /\ drain THEN FALSE ELSE tickReady
       /\ active' = StrategyOnFileChange(active, event)
       /\ hist' = [hist EXCEPT ![path] = Delivered(@, event)]
       /\ flipped' = (flipped \/ isIdle)
       /\ last' = [Quiet("onFileChange") EXCEPT !.path = path, !.contents = contents,
                                                !.wasIdle = isIdle]
       /\ UNCHANGED <<now, loop, stopped>>
       /\ UNCHANGED outsideManager

ManagerForceFlush(filePath, fail) ==
    LET r == StrategyForceFlush(active, filePath)
        o == SaveAndEmitCreated(r.chunks, fail)
    IN /\ loop # "new"
       /\ ~stopped
       /\ active' = r.table
       /\ NoteFlushed(r.chunks)
       /\ last' = [Quiet("forceFlush") EXCEPT
                     !.path = filePath, !.flush = "force", !.chunks = r.chunks,
                     !.calls = o.calls, !.err = o.err, !.wasIdle = isIdle]
       /\ UNCHANGED <<now, isIdle, lastActivity, timer, tickReady, loop, stopped, flipped>>
       /\ UNCHANGED outsideManager

\* ManagerFlushAll with a slip: the flush counts as activity
ManagerFlushAllCountsAsActivity(order, fail) ==
    LET r == StrategyFlushAll(active, order)
        o == SaveAndEmit(r.chunks, fail)
    IN /\ loop # "new"
       /\ ~stopped
       /\ active' = r.table
       /\ NoteFlushed(r.chunks)
       /\ lastActivity' = now
       /\ last' = [Quiet("flushAll") EXCEPT
                     !.flush = "all", !.chunks = r.chunks, !.calls = o,
                     !.wasIdle = isIdle]
       /\ UNCHANGED <<now, isIdle, timer, tickReady, loop, stopped, flipped>>
       /\ UNCHANGED outsideManager

ManagerFlushAll(order, fail) ==
    LET r == StrategyFlushAll(active, order)
        o == SaveAndEmit(r.chunks, fail)
    IN /\ loop # "new"
       /\ ~stopped
       /\ active' = r.table
       /\ NoteFlushed(r.chunks)
       /\ last' = [Quiet("flushAll") EXCEPT
                     !.flush = "all", !.chunks = r.chunks, !.calls = o,
                     !.wasIdle = isIdle]
       /\ UNCHANGED <<now, isIdle, lastActivity, timer, tickReady, loop, stopped, flipped>>
       /\ UNCHANGED outsideManager

\* TickFlush with slips: > for >=, and no idle entry at all
TickFlushStrictlyLater(idle, timeSinceActivity) ==
    IF ~idle /\ timeSinceActivity > idleThreshold THEN "all"
    ELSE IF ~idle THEN "stale"
    ELSE "none"

TickFlushNeverIdle(idle, timeSinceActivity) ==
    IF ~idle THEN "stale" ELSE "none"

\* TickFlush with a slip: an Idle Manager flushes as an Active one does
TickFlushWhenIdle(idle, timeSinceActivity) ==
    IF timeSinceActivity >= idleThreshold THEN "all" ELSE "stale"

\* which flush the timer callback of flushLoop performs
TickFlush(idle, timeSinceActivity) ==
    IF ~idle /\ timeSinceActivity >= idleThreshold THEN "all"
    ELSE IF ~idle THEN "stale"
    ELSE "none"

\* the entries the timer callback flushes
TickPaths == LET flush == TickFlush(isIdle, now - lastActivity)
             IN IF flush = "all" THEN DOMAIN active
                ELSE IF flush = "stale" THEN StalePaths(active, now)
                ELSE {}

\* case <-m.ticker.C of flushLoop
Tick(order, fail) ==
    LET timeSinceActivity == now - lastActivity
        flush == TickFlush(isIdle, timeSinceActivity)
        r == CASE flush = "all"   -> StrategyFlushAll(active, order)
               [] flush = "stale" -> StrategyFlushStaleChunks(active, now, order)
               [] OTHER           -> [table |-> active, chunks |-> <<>>]
        o == SaveAndEmit(r.chunks, fail)
        m == IF flush = "all" THEN switchToIdleMode(Mode, now) ELSE Mode
    IN /\ loop = "run"
       /\ tickReady
       /\ tickReady' = FALSE
       /\ active' = r.table
       /\ NoteFlushed(r.chunks)
       /\ SetMode(m)
       /\ flipped' = FALSE
       /\ last' = [Quiet("tick") EXCEPT
                     !.flush = flush, !.chunks = r.chunks, !.calls = o,
                     !.wasIdle = isIdle, !.afterFlip = flipped]
       /\ UNCHANGED <<now, lastActivity, loop, stopped>>
       /\ UNCHANGED outsideManager

\* Start: go m.flushLoop()
Start ==
    /\ loop = "new"
    /\ loop' = "run"
    /\ last' = Quiet("start")
    /\ UNCHANGED <<now, active, isIdle, lastActivity, timer, tickReady, stopped,
                   hist, flipped>>
    /\ UNCHANGED outsideManager

\* Stop with a slip: the entries of the table are discarded
StopDiscards ==
    /\ loop # "new"
    /\ ~stopped
    /\ stopped' = TRUE
    /\ tickerOn' = FALSE
    /\ active' = << >>
    /\ last' = Quiet("stop")
    /\ UNCHANGED <<now, isIdle, lastActivity, tickerPeriod, nextTick,
                   tickReady, loop, hist, flipped>>
    /\ UNCHANGED outsideManager

\* Stop: close(m.stopCh); m.ticker.Stop()
Stop ==
    /\ loop # "new"
    /\ ~stopped
    /\ stopped' = TRUE
    /\ tickerOn' = FALSE
    /\ last' = Quiet("stop")
    /\ UNCHANGED <<now, active, isIdle, lastActivity, tickerPeriod, nextTick,
                   tickReady, loop, hist, flipped>>
    /\ UNCHANGED outsideManager

\* case <-m.stopCh of flushLoop
LoopExit ==
    /\ loop = "run"
    /\ stopped
    /\ loop' = "done"
    /\ last' = Quiet("exit")
    /\ UNCHANGED <<now, active, isIdle, lastActivity, timer, tickReady, stopped,
                   hist, flipped>>
    /\ UNCHANGED outsideManager

----------------------------------------------------------------------------
(* The clock and the runtime's ticker *)

\* the armed ticker fires: a tick is put in ticker.C unless one is waiting there
TimerFire ==
    /\ loop # "new"
    /\ tickerOn
    /\ now = nextTick
    /\ tickReady' = TRUE
    /\ nextTick' = nextTick + tickerPeriod
    /\ last' = Quiet("fire")
    /\ UNCHANGED <<now, active, isIdle, lastActivity, tickerPeriod, tickerOn,
                   loop, stopped, hist, flipped>>
    /\ UNCHANGED outsideManager

\* time passes, but not past the instant the ticker is due at
Advance(t) ==
    /\ loop # "new"
    /\ ~stopped
    /\ t > now
    /\ tickerOn => t <= nextTick
    /\ now' = t
    /\ last' = Quiet("advance")
    /\ UNCHANGED <<active, isIdle, lastActivity, timer, tickReady, loop, stopped,
                   hist, flipped>>
    /\ UNCHANGED outsideManager

----------------------------------------------------------------------------

\* the parts of the model that are taken alone elsewhere do not run here
DiffParked == diffOld = <<>> /\ diffNew = <<>> /\ diffText = Pending

MatchParked ==
    matchPath = <<>> /\ matchRule = <<>> /\ matchIsDir = FALSE /\ matchResult = "pending"

\* no notification
NoEvent == [Name |-> <<>>, Op |-> {}]

\* what os.ReadFile returns: the bytes, or an error
ReadFile(contents) == [contents |-> contents, err |-> FALSE]

ReadFails == [contents |-> <<>>, err |-> TRUE]

\* nothing handled yet
NothingHandled == [event |-> NoEvent, stat |-> "none", read |-> ReadFile(<<>>), addOk |-> FALSE,
                   added |-> {}, removed |-> {}, calls |-> <<>>]

\* watcher.New(handler): nothing registered, no rule loaded, no goroutine
WatcherNew ==
    /\ watched = {}
    /\ gitignoreRules = <<>>
    /\ walk = "new"
    /\ todo = <<>>
    /\ watchLoop = "none"
    /\ fsEvent = NoEvent
    /\ watcherStopCh = FALSE
    /\ fsWatcherClosed = FALSE
    /\ handled = NothingHandled

WatcherParked == dirs = {} /\ WatcherNew

\* the goroutines that call into the Manager: the watcher's delivery, two
\* callers of the flush requests and the Manager's own flushLoop
Goroutines == {"OnFileChange", "ForceFlush", "FlushAll", "flushLoop"}

\* nobody is inside the Manager
LockParked ==
    /\ mu = FALSE
    /\ pc = [g \in Goroutines |-> "out"]
    /\ tracked = {}
    /\ batch = <<>>

\* no chunk, where a call takes none
NoStoreChunk == [ID |-> "", FilePath |-> "", Diff |-> ""]

\* what a call leaves in the history; the fields it does not set keep these
StoreCall(op) == [op |-> op, chunk |-> NoStoreChunk, filePath |-> "", limit |-> 0,
                  json |-> <<>>, sql |-> <<>>]

\* NewJSONStore and NewSQLiteStore on a new database: no chunk
StoreParked ==
    /\ jsonChunks = <<>>
    /\ sqlChunks = {}
    /\ storeNow = 0
    /\ recency = <<>>
    /\ storeLast = StoreCall("new")

\* NewManager(NewUnifiedStrategy(), store, emitter) at time 0
Init ==
    /\ now = 0
    /\ active = << >>
    /\ isIdle = FALSE
    /\ lastActivity = 0
    /\ tickerPeriod = activeInterval
    /\ tickerOn = TRUE
    /\ nextTick = activeInterval
    /\ tickReady = FALSE
    /\ loop = "new"
    /\ stopped = FALSE
    /\ hist = [p \in Paths |-> NoHistory(NoID)]
    /\ flipped = FALSE
    /\ last = Quiet("new")
    /\ DiffParked
    /\ MatchParked
    /\ WatcherParked
    /\ LockParked
    /\ StoreParked

\* Whether Reset leaves a tick that is waiting in ticker.C (Go before 1.23) or
\* drains it (Go 1.23 and later)
Drains == IF isIdle /\ tickReady THEN BOOLEAN ELSE {FALSE}

Stamps == {t \in TimePoints : lastActivity <= t /\ t <= now /\ Unix(t) = Unix(now)}

Next ==
    \/ \E e \in Events, t \in Stamps, d \in Drains :
          ManagerOnFileChange(e[1], e[2], t, d)
    \/ \E p \in Paths : \E fail \in SUBSET ({p} \cap DOMAIN active) : ManagerForceFlush(p, fail)
    \/ \E o \in Orders(DOMAIN active), fail \in SUBSET DOMAIN active : ManagerFlushAll(o, fail)
    \/ \E o \in Orders(TickPaths), fail \in SUBSET TickPaths : Tick(o, fail)
    \/ Start
    \/ Stop
    \/ LoopExit
    \/ TimerFire
    \/ \E t \in TimePoints : Advance(t)

Spec == Init /\ [][Next]_<<vars, outsideManager>>

TickStep == \E o \in Orders(TickPaths), fail \in SUBSET TickPaths : Tick(o, fail)

\* the step in which flushLoop receives the tick that waits in ticker.C, told
\* by what it does: the tick leaves the channel and the Manager does not
\* leave Idle (the Reset of a change event that drains the channel does)
TickTaken ==
    /\ loop = "run"
    /\ tickReady
    /\ tickReady' = FALSE
    /\ isIdle' \in BOOLEAN
    /\ isIdle => isIdle'

TimePasses == \E t \in TimePoints : Advance(t)

\* the Manager started and never stopped, with the timer's ticks as the only
\* flushes
RunNext ==
    \/ \E e \in Events, t \in Stamps, d \in Drains :
          ManagerOnFileChange(e[1], e[2], t, d)
    \/ TickStep
    \/ Start
    \/ TimerFire
    \/ TimePasses

\* flushLoop is scheduled while a tick waits for it, the runtime's ticker
\* fires when it is due, and time passes
FairSpec ==
    /\ Init
    /\ [][RunNext]_<<vars, outsideManager>>
    /\ WF_<<tickReady, isIdle>>(TickTaken)
    /\ WF_<<vars, outsideManager>>(TimerFire)
    /\ WF_<<vars, outsideManager>>(TimePasses)

----------------------------------------------------------------------------
(* computeSimpleDiff taken alone: any two files of at most MaxLines lines,  *)
(* each line one of Lines                                                   *)

LineX == <<120>>
LineY == <<121>>
Lines == {LineX, LineY}

Files == UNION {[1..n -> Lines] : n \in 0..MaxLines}

\* the manager as NewManager leaves it; nothing of it runs
ManagerParked ==
    /\ now = 0
    /\ active = << >>
    /\ isIdle = FALSE
    /\ lastActivity = 0
    /\ tickerPeriod = activeInterval
    /\ tickerOn = TRUE
    /\ nextTick = activeInterval
    /\ tickReady = FALSE
    /\ loop = "new"
    /\ stopped = FALSE
    /\ hist = [p \in Paths |-> NoHistory(NoID)]
    /\ flipped = FALSE
    /\ last = Quiet("new")

DiffInit ==
    /\ diffOld \in Files
    /\ diffNew \in Files
    /\ diffText = Pending
    /\ ManagerParked
    /\ MatchParked
    /\ WatcherParked
    /\ LockParked
    /\ StoreParked

\* the call computeSimpleDiff(oldLines, newLines)
ComputeDiff ==
    /\ diffText = Pending
    /\ diffText' = computeSimpleDiff(diffOld, diffNew)
    /\ UNCHANGED <<diffOld, diffNew>>
    /\ UNCHANGED outsideDiff

DiffNext == ComputeDiff

DiffSpec == DiffInit /\ [][DiffNext]_<<diffVars, outsideDiff>>

----------------------------------------------------------------------------
(* Ignore rules of the Watcher (internal/watcher/watcher.go).  A string is  *)
(* the sequence of its characters; a path is relative to watchDir, as      *)
(* filepath.Rel returns it, with "/" between its elements.                  *)

Separator == "/"

\* strings.HasPrefix, strings.HasSuffix, strings.TrimSuffix, strings.Contains
HasPrefix(str, prefix) ==
    Len(prefix) <= Len(str) /\ SubSeq(str, 1, Len(prefix)) = prefix

HasSuffix(str, suffix) ==
    Len(suffix) <= Len(str) /\ SubSeq(str, Len(str) - Len(suffix) + 1, Len(str)) = suffix

TrimSuffix(str, suffix) ==
    IF HasSuffix(str, suffix) THEN SubSeq(str, 1, Len(str) - Len(suffix)) ELSE str

StringsContains(str, substr) ==
    \E i \in 0..(Len(str) - Len(substr)) : SubSeq(str, i + 1, i + Len(substr)) = substr

\* strings.Split(str, "/"): i is the next position, start the start of the
\* current element, parts the elements found so far
RECURSIVE SplitFrom(_, _, _, _)
SplitFrom(str, i, start, parts) ==
    IF i > Len(str)
    THEN Append(parts, SubSeq(str, start, Len(str)))
    ELSE IF str[i] = Separator
         THEN SplitFrom(str, i + 1, i + 1, Append(parts, SubSeq(str, start, i - 1)))
         ELSE SplitFrom(str, i + 1, start, parts)

Split(str) == SplitFrom(str, 1, 1, <<>>)

\* slices.Contains
SlicesContains(seq, elem) == \E i \in DOMAIN seq : seq[i] = elem

\* filepath.Match(pattern, name) for patterns of literal characters, '*' (any
\* sequence of characters other than the separator) and '?' (one character
\* other than the separator); the whole name has to match
RECURSIVE Match(_, _)
Match(pattern, name) ==
    IF pattern = <<>>
    THEN name = <<>>
    ELSE IF Head(pattern) = "*"
         THEN \/ Match(Tail(pattern), name)
              \/ name # <<>> /\ Head(name) # Separator /\ Match(pattern, Tail(name))
         ELSE /\ name # <<>>
              /\ IF Head(pattern) = "?" THEN Head(name) # Separator
                                        ELSE Head(name) = Head(pattern)
              /\ Match(Tail(pattern), Tail(name))

\* matchesRule with a slip: a rule with a trailing "/" is applied to files too
matchesRuleOfAnyKind(path, rule, isDir) ==
    LET r == TrimSuffix(rule, <<Separator>>)
    IN Match(r, path) \/ SlicesContains(Split(path), r)

matchesRule(path, rule, isDir) ==
    IF HasSuffix(rule, <<Separator>>) /\ ~isDir
    THEN FALSE
    ELSE LET r == TrimSuffix(rule, <<Separator>>)
         IN Match(r, path) \/ SlicesContains(Split(path), r)

\* shouldIgnore, from the loop over w.gitignoreRules on: relPath is
\* filepath.Rel(w.watchDir, path)
shouldIgnore(rules, relPath, isDir) ==
    \E i \in DOMAIN rules : matchesRule(relPath, rules[i], isDir)

----------------------------------------------------------------------------
(* shouldIgnore taken alone: one rule, and a path of at most MaxDepth       *)
(* elements                                                                 *)

Names == { <<"b">>, <<"b", "1">>, <<"x">> }

RECURSIVE Join(_)
Join(elems) ==
    IF Len(elems) = 1 THEN elems[1]
    ELSE elems[1] \o <<Separator>> \o Join(Tail(elems))

RelPaths == {Join(e) : e \in UNION {[1..n -> Names] : n \in 1..MaxDepth}}

\* rules without a wildcard: b  b/  b1  b/x;  rules with one: b*  b*/  ?1  *
PlainRules == { <<"b">>, <<"b", "/">>, <<"b", "1">>, <<"b", "/", "x">> }
GlobRules  == { <<"b", "*">>, <<"b", "*", "/">>, <<"?", "1">>, <<"*">> }

MatchInit ==
    /\ matchPath \in RelPaths
    /\ matchRule \in PlainRules \cup GlobRules
    /\ matchIsDir \in BOOLEAN
    /\ matchResult = "pending"
    /\ ManagerParked
    /\ DiffParked
    /\ WatcherParked
    /\ LockParked
    /\ StoreParked

\* the call shouldIgnore(path, isDir) with gitignoreRules = []string{rule}
CallShouldIgnore ==
    /\ matchResult = "pending"
    /\ matchResult' = IF shouldIgnore(<<matchRule>>, matchPath, matchIsDir)
                      THEN "true" ELSE "false"
    /\ UNCHANGED <<matchPath, matchRule, matchIsDir>>
    /\ UNCHANGED outsideMatch

MatchNext == CallShouldIgnore

MatchSpec == MatchInit /\ [][MatchNext]_<<matchVars, outsideMatch>>

----------------------------------------------------------------------------
(* The Watcher (internal/watcher/watcher.go): Start, Stop, watchLoop and     *)
(* handleEvent over a small directory tree.  Directories are created while  *)
(* the watcher runs and are never removed or renamed; the state of a file   *)
(* is what os.Stat and os.ReadFile find when a notification for it is       *)
(* handled.  A notification is drawn when watchLoop receives it: any create *)
(* or write of an existing directory, or any create, write or remove of a   *)
(* file, right beneath a registered directory.                              *)

\* the directories there may be, by their paths relative to watchDir
Root == <<".">>
Src == <<"s", "r", "c">>
NodeModules == <<"n", "o", "d", "e", "_", "m", "o", "d", "u", "l", "e", "s">>
NodeModulesPkg == <<"n", "o", "d", "e", "_", "m", "o", "d", "u", "l", "e", "s", "/", "p", "k", "g">>
SrcNodeModules == <<"s", "r", "c", "/", "n", "o", "d", "e", "_", "m", "o", "d", "u", "l", "e", "s">>

WatchDirs == {Root, Src, NodeModules, NodeModulesPkg, SrcNodeModules}

\* the order in which filepath.Walk meets them (lexical, parents first)
WalkOrder == <<Root, NodeModules, NodeModulesPkg, Src, SrcNodeModules>>

\* the files there may be
ATxt == <<"a", ".", "t", "x", "t">>
ATmp == <<"a", ".", "t", "m", "p">>
ATmpl == <<"a", ".", "t", "m", "p", "l">>
ATilde == <<"a", "~">>
ASwp == <<"a", ".", "s", "w", "p">>
ASwo == <<"a", ".", "s", "w", "o">>
LockA == <<".", "#", "a">>
APng == <<"a", ".", "P", "N", "G">>
ALog == <<"a", ".", "l", "o", "g">>
SrcATxt == <<"s", "r", "c", "/", "a", ".", "t", "x", "t">>
SrcALog == <<"s", "r", "c", "/", "a", ".", "l", "o", "g">>
NodeModulesATxt == <<"n", "o", "d", "e", "_", "m", "o", "d", "u", "l", "e", "s", "/", "a", ".", "t", "x", "t">>
SrcNodeModulesATxt == <<"s", "r", "c", "/", "n", "o", "d", "e", "_", "m", "o", "d", "u", "l", "e", "s", "/", "a", ".", "t", "x", "t">>

WatchFiles == {ATxt, ATmp, ATmpl, ATilde, ASwp, ASwo, LockA, APng, ALog, SrcATxt, SrcALog, NodeModulesATxt, SrcNodeModulesATxt}

\* the rules loadGitignoreRules starts from
DefaultRules == << <<".", "g", "i", "t", "/">>,
                  <<"n", "o", "d", "e", "_", "m", "o", "d", "u", "l", "e", "s", "/">>,
                  <<".", "v", "s", "c", "o", "d", "e", "/">>,
                  <<".", "i", "d", "e", "a", "/">> >>

\* .gitignore in watchDir: missing, or these lines (a comment, an empty line
\* and the rule *.log)
GitignoreLines == << <<"#", " ", "l">>, <<>>, <<"*", ".", "l", "o", "g">> >>
GitignoreFiles == { <<>>, GitignoreLines }

\* the extensions shouldTrackFile takes for binary
binaryExts == { <<".", "e", "x", "e">>, <<".", "d", "l", "l">>, <<".", "s", "o">>, <<".", "b", "i", "n">>, <<".", "o", "u", "t">>,
                <<".", "o">>, <<".", "a">>, <<".", "j", "p", "g">>, <<".", "j", "p", "e", "g">>, <<".", "p", "n", "g">>,
                <<".", "g", "i", "f">>, <<".", "p", "d", "f">>, <<".", "z", "i", "p">>, <<".", "t", "a", "r">>, <<".", "g", "z">> }

\* filepath.Dir relative to watchDir: the directory a path lies in
RECURSIVE LastSeparator(_, _)
LastSeparator(path, i) ==
    IF i = 0 THEN 0
    ELSE IF path[i] = Separator THEN i ELSE LastSeparator(path, i - 1)

Dir(path) ==
    LET i == LastSeparator(path, Len(path))
    IN IF i = 0 THEN Root ELSE SubSeq(path, 1, i - 1)

\* filepath.Base: the last element of a path
Base(path) == SubSeq(path, LastSeparator(path, Len(path)) + 1, Len(path))

\* filepath.Ext: the suffix of the last element from its last dot on
RECURSIVE ExtFrom(_, _)
ExtFrom(path, i) ==
    IF i = 0 \/ path[i] = Separator THEN <<>>
    ELSE IF path[i] = "." THEN SubSeq(path, i, Len(path)) ELSE ExtFrom(path, i - 1)

Ext(path) == ExtFrom(path, Len(path))

\* strings.ToLower over the letters of the model's names
ToLower(str) ==
    [i \in DOMAIN str |-> CASE str[i] = "P" -> "p"
                            [] str[i] = "N" -> "n"
                            [] str[i] = "G" -> "g"
                            [] OTHER -> str[i]]

\* loadGitignoreRules: the default rules, then the lines of .gitignore that
\* are neither empty nor comments
loadGitignoreRules(lines) ==
    DefaultRules \o SelectSeq(lines, LAMBDA line : line # <<>> /\ ~HasPrefix(line, <<"#">>))

\* shouldTrackFile(path)
shouldTrackFile(rules, path) ==
    LET basename == Base(path)
    IN /\ ~shouldIgnore(rules, path, FALSE)
       /\ ~ \/ StringsContains(basename, <<".", "t", "m", "p">>)
            \/ HasSuffix(basename, <<"~">>)
            \/ HasSuffix(basename, <<".", "s", "w", "p">>)
            \/ HasSuffix(basename, <<".", "s", "w", "o">>)
            \/ HasPrefix(basename, <<".", "#">>)
       /\ ToLower(Ext(path)) \notin binaryExts

\* what handleEvent does: the directories it calls fsWatcher.Add and
\* fsWatcher.Remove for and its calls of handler.OnFileChange
Does(add, remove, calls) == [add |-> add, remove |-> remove, calls |-> calls]

\* handleEvent with slips: a created directory is registered though ignored;
\* a directory is registered on a write as well
handleEventAddsIgnored(rules, ev, stat, read) ==
    IF ev.Op \cap {"WRITE", "CREATE"} # {}
    THEN IF stat = "missing" THEN Does({}, {}, <<>>)
         ELSE IF stat = "dir" /\ "CREATE" \in ev.Op
              THEN Does({ev.Name}, {}, <<>>)
              ELSE IF stat = "file" /\ shouldTrackFile(rules, ev.Name) /\ ~read.err
                   THEN Does({}, IF "REMOVE" \in ev.Op THEN {ev.Name} ELSE {},
                             <<[path |-> ev.Name, contents |-> read.contents]>>)
                   ELSE Does({}, IF "REMOVE" \in ev.Op THEN {ev.Name} ELSE {}, <<>>)
    ELSE Does({}, IF "REMOVE" \in ev.Op THEN {ev.Name} ELSE {}, <<>>)

handleEventAddsOnWrite(rules, ev, stat, read) ==
    IF ev.Op \cap {"WRITE", "CREATE"} # {}
    THEN IF stat = "missing" THEN Does({}, {}, <<>>)
         ELSE IF stat = "dir"
              THEN Does(IF shouldIgnore(rules, ev.Name, TRUE) THEN {} ELSE {ev.Name}, {}, <<>>)
              ELSE IF stat = "file" /\ shouldTrackFile(rules, ev.Name) /\ ~read.err
                   THEN Does({}, IF "REMOVE" \in ev.Op THEN {ev.Name} ELSE {},
                             <<[path |-> ev.Name, contents |-> read.contents]>>)
                   ELSE Does({}, IF "REMOVE" \in ev.Op THEN {ev.Name} ELSE {}, <<>>)
    ELSE Does({}, IF "REMOVE" \in ev.Op THEN {ev.Name} ELSE {}, <<>>)

\* handleEvent(event); stat is what os.Stat finds ("missing" for an error,
\* "dir" or "file"), read what os.ReadFile returns.  The
\* three returns inside the create-or-write branch skip the remove branch; a
\* read that fails is one of them.
handleEvent(rules, ev, stat, read) ==
    IF ev.Op \cap {"WRITE", "CREATE"} # {}
    THEN IF stat = "missing" THEN Does({}, {}, <<>>)
         ELSE IF stat = "dir" /\ "CREATE" \in ev.Op
              THEN Does(IF shouldIgnore(rules, ev.Name, TRUE) THEN {} ELSE {ev.Name}, {}, <<>>)
              ELSE IF stat = "file" /\ shouldTrackFile(rules, ev.Name)
                   THEN IF read.err
                        THEN Does({}, {}, <<>>)
                        ELSE Does({}, IF "REMOVE" \in ev.Op THEN {ev.Name} ELSE {},
                                  <<[path |-> ev.Name, contents |-> read.contents]>>)
                   ELSE Does({}, IF "REMOVE" \in ev.Op THEN {ev.Name} ELSE {}, <<>>)
    ELSE Does({}, IF "REMOVE" \in ev.Op THEN {ev.Name} ELSE {}, <<>>)

\* the directories right beneath d that exist, in the order Walk reads them
Children(d) == SelectSeq(WalkOrder, LAMBDA c : c \in dirs /\ c # Root /\ Dir(c) = d)

\* WatcherStart with a slip: watchLoop is not launched before the walk
WatcherStartWithoutLoop(lines) ==
    /\ walk = "new"
    /\ gitignoreRules' = loadGitignoreRules(lines)
    /\ walk' = "walking"
    /\ todo' = <<Root>>
    /\ UNCHANGED <<dirs, watched, watchLoop, fsEvent, watcherStopCh, fsWatcherClosed, handled>>
    /\ UNCHANGED outsideWatcher

\* Start up to the call of filepath.Walk: the rules are loaded and watchLoop
\* is launched; lines is what .gitignore holds
WatcherStart(lines) ==
    /\ walk = "new"
    /\ gitignoreRules' = loadGitignoreRules(lines)
    /\ watchLoop' = "select"
    /\ walk' = "walking"
    /\ todo' = <<Root>>
    /\ UNCHANGED <<dirs, watched, fsEvent, watcherStopCh, fsWatcherClosed, handled>>
    /\ UNCHANGED outsideWatcher

\* filepath.Walk calls the function for the next directory.  outcome: "walk"
\* (Walk hands the function an error), "add" (fsWatcher.Add fails) or "ok".
\* An error ends Start, which returns it.
WalkVisit(outcome) ==
    LET d == Head(todo)
    IN /\ walk = "walking"
       /\ todo # <<>>
       /\ IF outcome = "walk"
          THEN walk' = "failed" /\ UNCHANGED <<watched, todo>>
          ELSE IF shouldIgnore(gitignoreRules, d, TRUE)
               THEN todo' = Tail(todo) /\ UNCHANGED <<watched, walk>>
               ELSE IF outcome = "add"
                    THEN walk' = "failed" /\ UNCHANGED <<watched, todo>>
                    ELSE /\ watched' = watched \cup {d}
                         /\ todo' = Children(d) \o Tail(todo)
                         /\ UNCHANGED walk
       /\ UNCHANGED <<dirs, gitignoreRules, watchLoop, fsEvent, watcherStopCh, fsWatcherClosed,
                      handled>>
       /\ UNCHANGED outsideWatcher

\* filepath.Walk has visited everything: Start returns nil
WalkReturn ==
    /\ walk = "walking"
    /\ todo = <<>>
    /\ walk' = "done"
    /\ UNCHANGED <<dirs, watched, gitignoreRules, todo, watchLoop, fsEvent, watcherStopCh,
                   fsWatcherClosed, handled>>
    /\ UNCHANGED outsideWatcher

\* WatcherStop with a slip: the fsWatcher is not closed
WatcherStopKeepsHandle ==
    /\ walk = "done"
    /\ ~watcherStopCh
    /\ watcherStopCh' = TRUE
    /\ UNCHANGED <<dirs, watched, gitignoreRules, walk, todo, watchLoop, fsEvent, fsWatcherClosed,
                   handled>>
    /\ UNCHANGED outsideWatcher

\* Stop: close(w.stopCh); w.fsWatcher.Close(), which drops every registration.
\* The callers call Stop only after Start has returned nil, and once.
WatcherStop ==
    /\ walk = "done"
    /\ ~watcherStopCh
    /\ watcherStopCh' = TRUE
    /\ fsWatcherClosed' = TRUE
    /\ watched' = {}
    /\ UNCHANGED <<dirs, gitignoreRules, walk, todo, watchLoop, fsEvent, handled>>
    /\ UNCHANGED outsideWatcher

\* the notifications of the model: a directory is created or written, a file
\* is created, written or removed
Notifications ==
    {[Name |-> d, Op |-> {op}] : d \in WatchDirs \ {Root}, op \in {"CREATE", "WRITE"}}
    \cup
    {[Name |-> f, Op |-> {op}] : f \in WatchFiles, op \in {"CREATE", "WRITE", "REMOVE"}}

\* the fsWatcher sends a notification for what lies right beneath a
\* registered directory
Notifies(ev) ==
    /\ Dir(ev.Name) \in watched
    /\ ev.Name \in WatchDirs => ev.Name \in dirs

\* case event, ok := <-w.fsWatcher.Events with ok true
Receive(ev) ==
    /\ watchLoop = "select"
    /\ ~fsWatcherClosed
    /\ Notifies(ev)
    /\ watchLoop' = "busy"
    /\ fsEvent' = ev
    /\ handled' = NothingHandled
    /\ UNCHANGED <<dirs, watched, gitignoreRules, walk, todo, watcherStopCh, fsWatcherClosed>>
    /\ UNCHANGED outsideWatcher

\* w.handleEvent(event) from its first to its last statement.  fsWatcher.Add
\* fails on a closed fsWatcher and may fail otherwise (addOk); handleEvent
\* ignores its error.
Handle(stat, read, addOk) ==
    LET does == handleEvent(gitignoreRules, fsEvent, stat, read)
        added == IF addOk /\ ~fsWatcherClosed THEN does.add ELSE {}
    IN /\ watchLoop = "busy"
       /\ stat = "dir" <=> fsEvent.Name \in dirs
       /\ watched' = (watched \cup added) \ does.remove
       /\ handled' = [event |-> fsEvent, stat |-> stat, read |-> read,
                      addOk |-> addOk /\ ~fsWatcherClosed,
                      added |-> does.add, removed |-> does.remove, calls |-> does.calls]
       /\ watchLoop' = "select"
       /\ fsEvent' = NoEvent
       /\ UNCHANGED <<dirs, gitignoreRules, walk, todo, watcherStopCh, fsWatcherClosed>>
       /\ UNCHANGED outsideWatcher

\* case <-w.stopCh, or a receive from the closed Events or Errors channel
WatchLoopReturn ==
    /\ watchLoop = "select"
    /\ watcherStopCh \/ fsWatcherClosed
    /\ watchLoop' = "done"
    /\ UNCHANGED <<dirs, watched, gitignoreRules, walk, todo, fsEvent, watcherStopCh,
                   fsWatcherClosed, handled>>
    /\ UNCHANGED outsideWatcher

\* somebody creates the directory d
Mkdir(d) ==
    /\ d \notin dirs
    /\ Dir(d) \in dirs
    /\ dirs' = dirs \cup {d}
    /\ UNCHANGED <<watched, gitignoreRules, walk, todo, watchLoop, fsEvent, watcherStopCh,
                   fsWatcherClosed, handled>>
    /\ UNCHANGED outsideWatcher

\* the tree when Start is called: watchDir with node_modules/pkg in it, with
\* or without src; src and src/node_modules may be created later
WatcherInit ==
    /\ dirs \in {{Root, NodeModules, NodeModulesPkg}, {Root, Src, NodeModules, NodeModulesPkg}}
    /\ WatcherNew
    /\ ManagerParked
    /\ DiffParked
    /\ MatchParked
    /\ LockParked
    /\ StoreParked

\* what os.ReadFile may return
Reads == {ReadFails, ReadFile(V1)}

WatcherNext ==
    \/ \E lines \in GitignoreFiles : WatcherStart(lines)
    \/ \E outcome \in {"ok", "walk", "add"} : WalkVisit(outcome)
    \/ WalkReturn
    \/ WatcherStop
    \/ \E ev \in Notifications : Receive(ev)
    \/ \E stat \in {"missing", "dir", "file"}, read \in Reads, addOk \in BOOLEAN :
          Handle(stat, read, addOk)
    \/ WatchLoopReturn
    \/ \E d \in WatchDirs : Mkdir(d)

WatcherSpec == WatcherInit /\ [][WatcherNext]_<<watcherVars, outsideWatcher>>

\* the goroutine of watchLoop is scheduled as long as it can take a step
WatchLoopStep ==
    \/ \E ev \in Notifications : Receive(ev)
    \/ \E stat \in {"missing", "dir", "file"}, read \in Reads, addOk \in BOOLEAN :
          Handle(stat, read, addOk)
    \/ WatchLoopReturn

WatcherLive == WatcherSpec /\ WF_<<watcherVars, outsideWatcher>>(WatchLoopStep)

----------------------------------------------------------------------------
(* Manager.mu statement by statement.  Each goroutine is at "out" (outside  *)
(* the Manager), at "Lock" (calling m.mu.Lock()), at "strategy" (lock held, *)
(* about to call the Strategy), at "SaveChunk" (in the loop over the        *)
(* removed chunks), at "Emit" (about to notify the Emitter) or at "Unlock". *)
(* The Strategy is reduced to the set of paths it tracks.                   *)

\* the goroutine calls its operation; for flushLoop, a tick arrives on
\* m.ticker.C
LockCall(g) ==
    /\ pc[g] = "out"
    /\ pc' = [pc EXCEPT ![g] = "Lock"]
    /\ UNCHANGED <<mu, tracked, batch>>
    /\ UNCHANGED outsideLock

\* m.mu.Lock() with a slip: the goroutine goes on though the lock is taken
LockWithoutWaiting(g) ==
    /\ pc[g] = "Lock"
    /\ mu' = TRUE
    /\ pc' = [pc EXCEPT ![g] = "strategy"]
    /\ UNCHANGED <<tracked, batch>>
    /\ UNCHANGED outsideLock

\* m.mu.Lock() returns: the lock was free
Lock(g) ==
    /\ pc[g] = "Lock"
    /\ ~mu
    /\ mu' = TRUE
    /\ pc' = [pc EXCEPT ![g] = "strategy"]
    /\ UNCHANGED <<tracked, batch>>
    /\ UNCHANGED outsideLock

\* the chunks a flush removes, or none: the goroutine goes on to save them
\* or, without any, to the unlock
Removed(g, chunks) ==
    /\ tracked' = tracked \ {chunks[i] : i \in DOMAIN chunks}
    /\ batch' = chunks
    /\ pc' = [pc EXCEPT ![g] = IF chunks = <<>> THEN "Unlock" ELSE "SaveChunk"]

\* the call of the Strategy under the lock: OnFileChange for path;
\* ForceFlush(path); FlushAll; on a tick FlushAll, FlushStaleChunks (the
\* stale ones are any of the tracked) or nothing when idle
StrategyCall(g, path, stale) ==
    /\ pc[g] = "strategy"
    /\ CASE g = "OnFileChange" ->
              /\ tracked' = tracked \cup {path}
              /\ pc' = [pc EXCEPT ![g] = "Unlock"]
              /\ UNCHANGED batch
         [] g = "ForceFlush" ->
              Removed(g, IF path \in tracked THEN <<path>> ELSE <<>>)
         [] g = "FlushAll" ->
              \E chunks \in Orders(tracked) : Removed(g, chunks)
         [] g = "flushLoop" ->
              /\ stale \subseteq tracked
              /\ \E chunks \in Orders(stale) : Removed(g, chunks)
    /\ UNCHANGED mu
    /\ UNCHANGED outsideLock

\* m.store.SaveChunk for the next chunk of the batch.  ForceFlush returns the
\* error; the flushes go on with the next chunk.
LockSaveChunk(g, ok) ==
    /\ pc[g] = "SaveChunk"
    /\ batch' = Tail(batch)
    /\ pc' = [pc EXCEPT ![g] = IF g = "ForceFlush" /\ ~ok THEN "Unlock"
                                ELSE IF Tail(batch) = <<>> THEN "Emit"
                                ELSE "SaveChunk"]
    /\ UNCHANGED <<mu, tracked>>
    /\ UNCHANGED outsideLock

\* m.emitter.EmitChunkCreated or EmitChunkFlushed
LockEmit(g) ==
    /\ pc[g] = "Emit"
    /\ pc' = [pc EXCEPT ![g] = "Unlock"]
    /\ UNCHANGED <<mu, tracked, batch>>
    /\ UNCHANGED outsideLock

\* m.mu.Unlock(), deferred or at the end of the tick
Unlock(g) ==
    /\ pc[g] = "Unlock"
    /\ mu' = FALSE
    /\ batch' = <<>>
    /\ pc' = [pc EXCEPT ![g] = "out"]
    /\ UNCHANGED tracked
    /\ UNCHANGED outsideLock

LockInit ==
    /\ LockParked
    /\ ManagerParked
    /\ DiffParked
    /\ MatchParked
    /\ WatcherParked
    /\ StoreParked

LockNext ==
    \E g \in Goroutines :
        \/ LockCall(g)
        \/ Lock(g)
        \/ \E path \in Paths, stale \in SUBSET Paths : StrategyCall(g, path, stale)
        \/ \E ok \in BOOLEAN : LockSaveChunk(g, ok)
        \/ LockEmit(g)
        \/ Unlock(g)

LockSpec == LockInit /\ [][LockNext]_<<lockVars, outsideLock>>

----------------------------------------------------------------------------
(* The stores (store.go).  A chunk is reduced to its id, its path and its   *)
(* diff; the other columns travel with them.  Two chunks of a.txt and one   *)
(* of b.txt, each with two diffs, so that a chunk can be saved again under  *)
(* its id with another content.                                            *)

StoreIDs == {"a.txt-0", "a.txt-1", "b.txt-0"}

StorePath(id) == IF id = "b.txt-0" THEN "b.txt" ELSE "a.txt"

StoreChunks == {[ID |-> id, FilePath |-> StorePath(id), Diff |-> d] :
                   id \in StoreIDs, d \in {"d1", "d2"}}

\* JSONStore.SaveChunk with a slip: the chunk is appended whatever its id
JSONSaveChunkAppends(chunks, c) == Append(chunks, c)

\* JSONStore.SaveChunk: the first chunk with the id is replaced, or the chunk
\* is appended; persist returns nil
JSONSaveChunk(chunks, c) ==
    LET same == {i \in DOMAIN chunks : chunks[i].ID = c.ID}
    IN IF same # {}
       THEN [chunks EXCEPT ![CHOOSE i \in same : \A j \in same : i <= j] = c]
       ELSE Append(chunks, c)

\* JSONStore.FindChunks: the chunks of the path, in the order of the slice
JSONFindChunks(chunks, filePath) == SelectSeq(chunks, LAMBDA c : c.FilePath = filePath)

\* JSONStore.GetRecentChunks: the last limit chunks of the slice, in its order
JSONGetRecentChunks(chunks, limit) ==
    LET n == IF limit > Len(chunks) THEN Len(chunks) ELSE limit
    IN SubSeq(chunks, Len(chunks) - n + 1, Len(chunks))

\* INSERT OR REPLACE INTO chunks: the row with the primary key id, if any, is
\* deleted and the new row inserted; created_at, not given, is
\* CURRENT_TIMESTAMP
SQLiteSaveChunk(rows, c, t) ==
    {r \in rows : r.chunk.ID # c.ID} \cup {[chunk |-> c, created_at |-> t]}

\* ORDER BY created_at DESC: the orders SQLite may return the rows in; rows
\* of one second come in any order
OrderByCreatedAtDesc(rows) ==
    {o \in Orders(rows) : \A i, j \in DOMAIN o : i < j => o[i].created_at >= o[j].created_at}

\* scanChunks
scanChunks(rows) == [i \in DOMAIN rows |-> rows[i].chunk]

\* the results SQLiteStore.FindChunks may return
SQLiteFindChunks(rows, filePath) ==
    {scanChunks(o) : o \in OrderByCreatedAtDesc({r \in rows : r.chunk.FilePath = filePath})}

\* the results SQLiteStore.GetRecentChunks may return: LIMIT ?
SQLiteGetRecentChunks(rows, limit) ==
    {scanChunks(SubSeq(o, 1, IF limit > Len(o) THEN Len(o) ELSE limit)) :
        o \in OrderByCreatedAtDesc(rows)}

\* SaveChunk(c) on both stores
StoreSaveChunk(c) ==
    /\ jsonChunks' = JSONSaveChunk(jsonChunks, c)
    /\ sqlChunks' = SQLiteSaveChunk(sqlChunks, c, storeNow)
    /\ recency' = <<c>> \o SelectSeq(recency, LAMBDA r : r.ID # c.ID)
    /\ storeLast' = [StoreCall("SaveChunk") EXCEPT !.chunk = c]
    /\ UNCHANGED storeNow
    /\ UNCHANGED outsideStore

\* FindChunks(filePath) on both stores
StoreFindChunks(filePath) ==
    /\ \E rows \in SQLiteFindChunks(sqlChunks, filePath) :
          storeLast' = [StoreCall("FindChunks") EXCEPT
                          !.filePath = filePath,
                          !.json = JSONFindChunks(jsonChunks, filePath),
                          !.sql = rows]
    /\ UNCHANGED <<jsonChunks, sqlChunks, storeNow, recency>>
    /\ UNCHANGED outsideStore

\* GetRecentChunks(limit) on both stores
StoreGetRecentChunks(limit) ==
    /\ \E rows \in SQLiteGetRecentChunks(sqlChunks, limit) :
          storeLast' = [StoreCall("GetRecentChunks") EXCEPT
                          !.limit = limit,
                          !.json = JSONGetRecentChunks(jsonChunks, limit),
                          !.sql = rows]
    /\ UNCHANGED <<jsonChunks, sqlChunks, storeNow, recency>>
    /\ UNCHANGED outsideStore

\* a second passes
StoreSecond ==
    /\ storeNow < MaxSecond
    /\ storeNow' = storeNow + 1
    /\ storeLast' = StoreCall("second")
    /\ UNCHANGED <<jsonChunks, sqlChunks, recency>>
    /\ UNCHANGED outsideStore

StoreInit ==
    /\ StoreParked
    /\ ManagerParked
    /\ DiffParked
    /\ MatchParked
    /\ WatcherParked
    /\ LockParked

StoreNext ==
    \/ \E c \in StoreChunks : StoreSaveChunk(c)
    \/ \E filePath \in Paths : StoreFindChunks(filePath)
    \/ \E limit \in 0..MaxLimit : StoreGetRecentChunks(limit)
    \/ StoreSecond

StoreSpec == StoreInit /\ [][StoreNext]_<<storeVars, outsideStore>>

----------------------------------------------------------------------------
(* Properties *)

\* the number of chunks a batch holds for path p
CountOf(chunks, p) == Cardinality({i \in DOMAIN chunks : chunks[i].FilePath = p})

\* the lines of a diff text with one of the markers, without the marker
Side(text, markers) ==
    LET kept == SelectSeq(text.lines, LAMBDA l : l[1] \in markers)
    IN [k \in DOMAIN kept |-> Tail(kept[k])]

\* the old and the new file as the diff text shows them
OldSide(text) == Side(text, {MarkContext, MarkRemoved})
NewSide(text) == Side(text, {MarkContext, MarkAdded})

\* the diff text has no removed and no added line
NoChangeLines(text) == \A k \in DOMAIN text.lines : text.lines[k][1] = MarkContext

\* C1: a step produces a Chunk for a path exactly when it removes the path's
\* ActiveChunk from the table, it produces at most one, that Chunk is the
\* removed ActiveChunk's, and an ActiveChunk that stays in the table is not
\* replaced by another one.
FlushIsAtomicPerPath ==
    [][\A p \in Paths :
         /\ CountOf(last'.chunks, p) <= 1
         /\ (CountOf(last'.chunks, p) = 1) <=> (p \in DOMAIN active /\ p \notin DOMAIN active')
         /\ \A c \in ChunksOf(last'.chunks, p) :
               /\ c.ID = active[p].chunk.ID
               /\ c.StartTime = active[p].chunk.StartTime
               /\ c.EndTime = active[p].chunk.EndTime
               /\ c.Hash = active[p].chunk.Hash
         /\ (p \in DOMAIN active /\ p \in DOMAIN active') =>
               /\ active'[p].chunk.ID = active[p].chunk.ID
               /\ active'[p].chunk.StartTime = active[p].chunk.StartTime
               /\ active'[p].initialContent = active[p].initialContent
      ]_vars

\* a tick has flushed one stale chunk and left a younger one in the table
FlushIsAtomicWitness ==
    /\ last.op = "tick"
    /\ last.flush = "stale"
    /\ Len(last.chunks) = 1
    /\ DOMAIN active # {}

\* C2: the ActiveChunk created by the first change to a path after a flush of
\* that path has an ID different from the flushed Chunk's.
FreshIdAfterFlush ==
    [][\A p \in Paths :
         (p \notin DOMAIN active /\ p \in DOMAIN active' /\ hist[p].flushedID # NoID)
            => active'[p].chunk.ID # hist[p].flushedID
      ]_vars

\* C3 as stated: a tick or FlushAll produces no Chunk for a path all of whose
\* events had the hash of its first one.
NoChunkBeforeDivergence ==
    [][\A p \in Paths :
         (last'.op \in {"tick", "flushAll"} /\ hist[p].tracked /\ hist[p].sameOnly)
            => ChunksOf(last'.chunks, p) = {}
      ]_vars

\* C3 amended: the Chunk a tick or FlushAll produces for a path all of whose
\* events had the hash of its first one records no change: its hash is that
\* first hash, its end time is its start time and its diff has no removed
\* and no added line.
UnchangedChunkBeforeDivergence ==
    [][\A p \in Paths :
         (last'.op \in {"tick", "flushAll"} /\ hist[p].tracked /\ hist[p].sameOnly)
            => \A c \in ChunksOf(last'.chunks, p) :
                  /\ c.Hash = hashContent(hist[p].firstContents)
                  /\ c.EndTime = c.StartTime
                  /\ NoChangeLines(c.Diff)
                  /\ OldSide(c.Diff) = NewSide(c.Diff)
      ]_vars

\* an idle-entry flush has produced a Chunk that records no change
UnchangedChunkWitness ==
    /\ last.op = "tick"
    /\ last.flush = "all"
    /\ \E i \in DOMAIN last.chunks :
          /\ NoChangeLines(last.chunks[i].Diff)
          /\ last.chunks[i].Diff.hunk[1] > 0
          /\ last.chunks[i].EndTime = last.chunks[i].StartTime

\* C4 as stated: the first tick after a change event has ended Idle flushes
\* stale chunks only and leaves the Manager Active.
TickAfterFlipIsStaleOnly ==
    [][(last'.op = "tick" /\ flipped) => (last'.flush = "stale" /\ ~isIdle')]_vars

\* C4 amended: the first tick after a change event has ended Idle flushes
\* stale chunks only and leaves the Manager Active when less than
\* idleThreshold has passed since the last change event; otherwise it flushes
\* every chunk and the Manager becomes Idle again.
TickAfterFlipFollowsActivity ==
    [][(last'.op = "tick" /\ flipped) =>
         /\ ~isIdle
         /\ IF now - lastActivity < idleThreshold
            THEN last'.flush = "stale" /\ ~isIdle'
            ELSE last'.flush = "all" /\ isIdle' /\ active' = << >>
      ]_vars

\* the first tick after the end of Idle has flushed stale chunks only
TickAfterFlipWitness ==
    /\ last.op = "tick"
    /\ last.afterFlip
    /\ last.flush = "stale"
    /\ ~isIdle

\* C5: an OnFileChange received while Idle leaves the Manager Active, with the
\* activity clock at the current time and the ticker re-armed with the active
\* interval, and has passed the event to the Strategy, all in that one step.
ChangeEndsIdleAtOnce ==
    [][(last'.op = "onFileChange" /\ isIdle) =>
         /\ ~isIdle'
         /\ lastActivity' = now
         /\ tickerPeriod' = activeInterval
         /\ nextTick' = now + activeInterval
         /\ tickerOn'
         /\ last'.path \in DOMAIN active'
      ]_vars

\* a change event has just ended Idle
ChangeEndsIdleWitness ==
    /\ last.op = "onFileChange"
    /\ last.wasIdle
    /\ ~isIdle
    /\ lastActivity = now
    /\ last.path \in DOMAIN active

\* C6: the ticker's period is activeInterval when Active, idleInterval when Idle.
PeriodMatchesMode == tickerPeriod = (IF isIdle THEN idleInterval ELSE activeInterval)

\* the Manager is Idle, a change event having ended an earlier Idle period
PeriodMatchesModeWitness ==
    /\ isIdle
    /\ tickerPeriod = idleInterval
    /\ last.op = "tick"
    /\ last.afterFlip

\* C7: a tick in Active state, idleThreshold or more after the last change
\* event, flushes every active chunk and makes the Manager Idle with the idle
\* interval; an earlier one flushes exactly the stale chunks and leaves mode
\* and ticker alone; and Idle is entered by no other step.
TickInActive ==
    [][/\ (last'.op = "tick" /\ ~isIdle) =>
             IF now - lastActivity >= idleThreshold
             THEN /\ active' = << >>
                  /\ \A p \in DOMAIN active : CountOf(last'.chunks, p) = 1
                  /\ Len(last'.chunks) = Cardinality(DOMAIN active)
                  /\ isIdle'
                  /\ tickerPeriod' = idleInterval
                  /\ nextTick' = now + idleInterval
             ELSE /\ DOMAIN active' =
                        {p \in DOMAIN active : now - active[p].lastUpdate < flushTimeout}
                  /\ \A p \in DOMAIN active' : active'[p] = active[p]
                  /\ \A p \in DOMAIN active \ DOMAIN active' : CountOf(last'.chunks, p) = 1
                  /\ Len(last'.chunks) = Cardinality(DOMAIN active \ DOMAIN active')
                  /\ ~isIdle'
                  /\ UNCHANGED timer
       /\ (~isIdle /\ isIdle') =>
             (last'.op = "tick" /\ now - lastActivity >= idleThreshold)
      ]_vars

\* a tick has flushed a chunk younger than flushTimeout and made the Manager Idle
TickInActiveWitness ==
    /\ last.op = "tick"
    /\ ~last.wasIdle
    /\ isIdle
    /\ tickerPeriod = idleInterval
    /\ \E i \in DOMAIN last.chunks : now - last.chunks[i].EndTime < flushTimeout

\* C8: every ActiveChunk ends no earlier than it starts and was last updated
\* at its end time.
ChunkTimesOrdered ==
    \A p \in DOMAIN active :
        /\ active[p].chunk.EndTime >= active[p].chunk.StartTime
        /\ active[p].lastUpdate = active[p].chunk.EndTime

\* an ActiveChunk has been updated by a later event
ChunkTimesWitness ==
    \E p \in DOMAIN active :
        /\ active[p].chunk.EndTime > active[p].chunk.StartTime
        /\ active[p].lastUpdate = active[p].chunk.EndTime
        /\ last.op = "onFileChange"

\* C9: an OnFileChange for a tracked path whose content hashes to the
\* ActiveChunk's initial hash leaves the whole table as it was and produces
\* no Chunk.
SameHashIsNoOp ==
    [][(/\ last'.op = "onFileChange"
        /\ last'.path \in DOMAIN active
        /\ hashContent(last'.contents) = active[last'.path].initialHash)
          => /\ active' = active
             /\ last'.chunks = << >>
             /\ last'.calls = << >>
      ]_vars

\* the last event restored the initial content of a chunk that had changed,
\* and was discarded
SameHashWitness ==
    /\ last.op = "onFileChange"
    /\ last.path \in DOMAIN active
    /\ last.contents = active[last.path].initialContent
    /\ active[last.path].latestContent # active[last.path].initialContent
    /\ active[last.path].chunk.EndTime < now

\* C10: ForceFlush of a tracked path produces one Chunk, manual, from the
\* path's first event to its last event with another hash, whose diff shows
\* the first content as old and that last content as new; the path leaves the
\* table and every other entry stays as it was.
ForceFlushProducesManualChunk ==
    [][(last'.op = "forceFlush" /\ last'.path \in DOMAIN active) =>
         /\ Len(last'.chunks) = 1
         /\ LET p == last'.path
                c == last'.chunks[1]
            IN /\ c.FilePath = p
               /\ c.Manual
               /\ c.StartTime = hist[p].firstTime
               /\ c.EndTime = hist[p].changeTime
               /\ c.Diff.header.path = p
               /\ c.Diff.hunk = <<Len(splitLines(hist[p].firstContents)),
                                  Len(splitLines(hist[p].changeContents))>>
               /\ OldSide(c.Diff) = splitLines(hist[p].firstContents)
               /\ NewSide(c.Diff) = splitLines(hist[p].changeContents)
               /\ DOMAIN active' = DOMAIN active \ {p}
               /\ \A q \in DOMAIN active' : active'[q] = active[q]
      ]_vars

\* Scenario B with a second path tracked: v1, then v2 later, then ForceFlush
ForceFlushWitness ==
    /\ last.op = "forceFlush"
    /\ Len(last.chunks) = 1
    /\ last.chunks[1].Manual
    /\ last.chunks[1].EndTime > last.chunks[1].StartTime
    /\ last.chunks[1].Diff.lines = << <<MarkRemoved>> \o V1, <<MarkAdded>> \o V2 >>
    /\ DOMAIN active # {}

\* the calls of a step made on the ChunkStore, and those made on the EventEmitter
SaveCalls(calls) == SelectSeq(calls, LAMBDA c : c.call = "SaveChunk")
EmitCalls(calls) == SelectSeq(calls, LAMBDA c : c.call # "SaveChunk")

\* C11: Manager.ForceFlush on a path that has no ActiveChunk returns no
\* error, calls neither the store nor the emitter, and leaves the active table
\* and the Active/Idle state as they were.
ForceFlushOfUntrackedIsNoOp ==
    [][(last'.op = "forceFlush" /\ last'.path \notin DOMAIN active) =>
         /\ ~last'.err
         /\ last'.calls = <<>>
         /\ last'.chunks = <<>>
         /\ active' = active
         /\ isIdle' = isIdle
      ]_vars

\* ForceFlush of a path without an ActiveChunk while another path has one
ForceFlushOfUntrackedWitness ==
    /\ last.op = "forceFlush"
    /\ last.path \notin DOMAIN active
    /\ last.chunks = <<>>
    /\ DOMAIN active # {}

\* C12: a flush of everything (Manager.FlushAll, or the tick that enters Idle)
\* returns exactly one Chunk for every path that had an ActiveChunk, whatever
\* its age, none of them manual, and leaves the active table empty.
FlushAllReturnsEveryChunk ==
    [][last'.flush = "all" =>
         /\ Len(last'.chunks) = Cardinality(DOMAIN active)
         /\ \A p \in DOMAIN active : CountOf(last'.chunks, p) = 1
         /\ \A i \in DOMAIN last'.chunks : ~last'.chunks[i].Manual
         /\ active' = << >>
      ]_vars

\* Scenario C: two paths flushed by Manager.FlushAll, neither of them stale
FlushAllWitness ==
    /\ last.op = "flushAll"
    /\ Len(last.chunks) = 2
    /\ last.chunks[1].FilePath # last.chunks[2].FilePath
    /\ \A i \in DOMAIN last.chunks : now - last.chunks[i].EndTime < flushTimeout
    /\ active = << >>

\* C13: FlushStaleChunks(now) flushes exactly the ActiveChunks with
\* now - lastUpdate >= flushTimeout: each is in the batch once and leaves the
\* table; every other ActiveChunk stays unchanged and is not in the batch.
FlushStaleFlushesExactlyTheStale ==
    [][last'.flush = "stale" =>
         /\ \A i \in DOMAIN last'.chunks : last'.chunks[i].FilePath \in DOMAIN active
         /\ \A p \in DOMAIN active :
              IF now - active[p].lastUpdate >= flushTimeout
              THEN /\ CountOf(last'.chunks, p) = 1
                   /\ p \notin DOMAIN active'
              ELSE /\ CountOf(last'.chunks, p) = 0
                   /\ p \in DOMAIN active'
                   /\ active'[p] = active[p]
      ]_vars

\* a tick has flushed a chunk that was last updated exactly flushTimeout ago
\* and has left one in the table that lacks one tick of that age
FlushStaleWitness ==
    /\ last.op = "tick"
    /\ last.flush = "stale"
    /\ Len(last.chunks) = 1
    /\ now - last.chunks[1].EndTime = flushTimeout
    /\ \E p \in DOMAIN active : now - active[p].lastUpdate = flushTimeout - 1

\* C14: a second FlushStaleChunks(now) right after the first, with the same
\* now, returns an empty batch and leaves the table as the first left it.
FlushStaleTwiceIsFlushStaleOnce ==
    [][last'.flush = "stale" =>
         \A o \in Orders(StalePaths(active', now)) :
            LET again == StrategyFlushStaleChunks(active', now, o)
            IN /\ again.chunks = <<>>
               /\ again.table = active'
      ]_vars

\* the first call has flushed a chunk and has left another one
FlushStaleTwiceWitness ==
    /\ last.flush = "stale"
    /\ Len(last.chunks) >= 1
    /\ \E p \in DOMAIN active : p # last.chunks[1].FilePath

\* C15: Manager.ForceFlush and Manager.FlushAll, in Active and in Idle, leave
\* the Active/Idle state, the ticker (its period and the instant it is due at)
\* and the activity clock as they were.
FlushRequestsKeepMode ==
    [][last'.op \in {"forceFlush", "flushAll"} =>
         /\ isIdle' = isIdle
         /\ tickerPeriod' = tickerPeriod
         /\ tickerOn' = tickerOn
         /\ nextTick' = nextTick
         /\ lastActivity' = lastActivity
      ]_vars

\* ForceFlush has been called in Idle, some time after the last activity
FlushRequestsKeepModeWitness ==
    /\ last.op = "forceFlush"
    /\ last.wasIdle
    /\ isIdle
    /\ tickerPeriod = idleInterval
    /\ lastActivity < now

\* C16: every Manager.OnFileChange sets the activity clock to the current
\* time, in Active and in Idle, also when the strategy takes the event for a
\* no-op.
ChangeResetsActivityClock ==
    [][last'.op = "onFileChange" => lastActivity' = now']_vars

\* an event with the initial hash has reached a path whose ActiveChunk was
\* last updated in an earlier second: the chunk is as it was, the clock is not
ChangeResetsActivityClockWitness ==
    /\ last.op = "onFileChange"
    /\ last.path \in DOMAIN active
    /\ hashContent(last.contents) = active[last.path].initialHash
    /\ Unix(active[last.path].lastUpdate) < Unix(now)
    /\ lastActivity = now

\* C17: a tick or Manager.FlushAll calls SaveChunk exactly once for every chunk
\* of its batch, in the batch's order, also after a save that failed, and for
\* no other chunk; the batch holds only chunks whose entries the step removed.
EveryChunkSavedOnce ==
    [][last'.op \in {"tick", "flushAll"} =>
         LET saves == SaveCalls(last'.calls)
         IN /\ Len(saves) = Len(last'.chunks)
            /\ \A i \in DOMAIN saves : saves[i].chunks = <<last'.chunks[i]>>
            /\ \A i \in DOMAIN last'.chunks :
                  last'.chunks[i].FilePath \in DOMAIN active \ DOMAIN active'
      ]_vars

\* the first save of a batch of two has failed and the second was attempted
EveryChunkSavedOnceWitness ==
    /\ last.op \in {"tick", "flushAll"}
    /\ Len(last.chunks) = 2
    /\ Len(SaveCalls(last.calls)) = 2
    /\ ~last.calls[1].ok
    /\ last.calls[2].call = "SaveChunk"

\* C18: the batch a tick or Manager.FlushAll reports to the emitter as flushed
\* holds exactly the chunks of the batch whose save succeeded.
FlushedBatchHoldsSavedChunksOnly ==
    [][last'.op \in {"tick", "flushAll"} =>
         LET saved == SelectSeq(SaveCalls(last'.calls), LAMBDA c : c.ok)
             emits == EmitCalls(last'.calls)
         IN \A e \in DOMAIN emits :
               emits[e].chunks = [i \in DOMAIN saved |-> saved[i].chunks[1]]
      ]_vars

\* C19: a tick or Manager.FlushAll with a non-empty batch makes one call of
\* EmitChunkFlushed, after the last SaveChunk; with an empty batch it makes
\* no call; a ForceFlush that returns no error for a chunk makes one call of
\* EmitChunkCreated, for that chunk, after its SaveChunk.
EmitFollowsSaves ==
    [][LET calls == last'.calls
           n == Len(last'.chunks)
       IN /\ (last'.op \in {"tick", "flushAll"} /\ n > 0) =>
                /\ Len(calls) = n + 1
                /\ \A i \in 1..n : calls[i].call = "SaveChunk"
                /\ calls[n + 1].call = "EmitChunkFlushed"
          /\ (last'.op \in {"tick", "flushAll"} /\ n = 0) => calls = <<>>
          /\ (last'.op = "forceFlush" /\ n = 1 /\ ~last'.err) =>
                /\ Len(calls) = 2
                /\ calls[1].call = "SaveChunk"
                /\ calls[1].chunks = last'.chunks
                /\ calls[1].ok
                /\ calls[2].call = "EmitChunkCreated"
                /\ calls[2].chunks = last'.chunks
      ]_vars

\* a tick has saved two chunks and then notified the emitter
EmitFollowsSavesWitness ==
    /\ last.op = "tick"
    /\ Len(last.chunks) = 2
    /\ Len(last.calls) = 3
    /\ last.calls[2].call = "SaveChunk"
    /\ last.calls[3].call = "EmitChunkFlushed"

\* C20: Manager.Start and Manager.Stop leave the active table as it is and
\* call neither the store nor the emitter.
StartAndStopKeepChunks ==
    [][last'.op \in {"start", "stop"} =>
         /\ active' = active
         /\ last'.chunks = <<>>
         /\ last'.calls = <<>>
      ]_vars

\* Stop has been called with two ActiveChunks in the table, one with changes
StartAndStopKeepChunksWitness ==
    /\ last.op = "stop"
    /\ stopped
    /\ Cardinality(DOMAIN active) = 2
    /\ \E p \in DOMAIN active : active[p].chunk.Hash # active[p].initialHash

\* the lines of a diff text with the given marker, without the marker
LinesMarked(text, marker) == Side(text, {marker})

\* the number of context lines the diff text begins with
LeadingContext(text) ==
    LET n == Len(text.lines)
    IN CHOOSE k \in 0..n :
          /\ \A i \in 1..k : text.lines[i][1] = MarkContext
          /\ k < n => text.lines[k + 1][1] # MarkContext

\* the longest common prefix of two files, and their longest common suffix
\* outside it
LongestCommonPrefix(old, new) ==
    LET ks == {k \in 0..Min(Len(old), Len(new)) : \A i \in 1..k : old[i] = new[i]}
    IN CHOOSE k \in ks : \A j \in ks : j <= k

LongestCommonSuffix(old, new, p) ==
    LET ks == {k \in 0..(Min(Len(old), Len(new)) - p) :
                 \A i \in 0..(k - 1) : old[Len(old) - i] = new[Len(new) - i]}
    IN CHOOSE k \in ks : \A j \in ks : j <= k

\* C30: with p the longest common prefix and s the longest common suffix
\* outside it, p + s <= min(len(old), len(new)); the diff is at most 3 context
\* lines that end the prefix, then old[p .. len(old)-s) marked removed, then
\* new[p .. len(new)-s) marked added, then at most 3 context lines that begin
\* the suffix.
DiffShowsWhatLiesBetweenPrefixAndSuffix ==
    diffText # Pending =>
       LET n  == Len(diffOld)
           m  == Len(diffNew)
           p  == LongestCommonPrefix(diffOld, diffNew)
           s  == LongestCommonSuffix(diffOld, diffNew, p)
           c1 == LeadingContext(diffText)
           r  == Len(LinesMarked(diffText, MarkRemoved))
           a  == Len(LinesMarked(diffText, MarkAdded))
           c2 == Len(diffText.lines) - c1 - r - a
           at(from, len) == [k \in 1..len |-> Tail(diffText.lines[from + k])]
       IN /\ p + s <= Min(n, m)
          /\ c1 <= ContextLines /\ c1 <= p
          /\ c2 >= 0 /\ c2 <= ContextLines /\ c2 <= s
          /\ at(0, c1) = SubSeq(diffOld, p - c1 + 1, p)
          /\ \A k \in 1..r : diffText.lines[c1 + k][1] = MarkRemoved
          /\ at(c1, r) = SubSeq(diffOld, p + 1, n - s)
          /\ \A k \in 1..a : diffText.lines[c1 + r + k][1] = MarkAdded
          /\ at(c1 + r, a) = SubSeq(diffNew, p + 1, m - s)
          /\ \A k \in 1..c2 : diffText.lines[c1 + r + a + k][1] = MarkContext
          /\ at(c1 + r + a, c2) = SubSeq(diffOld, n - s + 1, n - s + c2)

\* a prefix of four lines, of which three are shown, then a removed line and
\* an added one
DiffWitness ==
    /\ diffText # Pending
    /\ LongestCommonPrefix(diffOld, diffNew) = 4
    /\ LeadingContext(diffText) = ContextLines
    /\ Len(LinesMarked(diffText, MarkRemoved)) = 1
    /\ Len(LinesMarked(diffText, MarkAdded)) = 1
    /\ diffText.lines[Len(diffText.lines)][1] = MarkAdded

\* the rule has a wildcard character
HasWildcard(rule) == \E i \in DOMAIN rule : rule[i] \in {"*", "?"}

\* str[i..j] is one whole element of the path str
IsElement(str, i, j) ==
    /\ i <= j + 1
    /\ i = 1 \/ str[i - 1] = Separator
    /\ j = Len(str) \/ str[j + 1] = Separator
    /\ \A k \in i..j : str[k] # Separator

\* the elements of a path as a set, and those of its ancestor directories
ElementsAt(str) ==
    {ij \in (1..(Len(str) + 1)) \X (0..Len(str)) : IsElement(str, ij[1], ij[2])}

Elements(str) == {SubSeq(str, ij[1], ij[2]) : ij \in ElementsAt(str)}

AncestorNames(str) ==
    {SubSeq(str, ij[1], ij[2]) : ij \in {x \in ElementsAt(str) : x[2] < Len(str)}}

\* C27: a rule without a wildcard matches exactly when it is applicable (a
\* rule with a trailing "/" only to directories) and, its trailing "/" taken
\* off, it equals the relative path or one whole element of it.
PlainRuleMatchesWholeElements ==
    (matchResult # "pending" /\ ~HasWildcard(matchRule)) =>
       LET dirOnly == matchRule[Len(matchRule)] = Separator
           r == IF dirOnly THEN SubSeq(matchRule, 1, Len(matchRule) - 1) ELSE matchRule
       IN (matchResult = "true") <=> /\ dirOnly => matchIsDir
                                     /\ \/ matchPath = r
                                        \/ r \in Elements(matchPath)

\* the rule b/ has ignored the directory x/b
PlainRuleWitness ==
    /\ matchRule = <<"b", "/">>
    /\ matchPath = <<"x", "/", "b">>
    /\ matchIsDir
    /\ matchResult = "true"

\* C28: a rule with a wildcard matches exactly when it is applicable and, its
\* trailing "/" taken off, it glob-matches the relative path or the name of one
\* of the path's ancestor directories.
GlobRuleMatchesAncestors ==
    (matchResult # "pending" /\ HasWildcard(matchRule)) =>
       LET dirOnly == matchRule[Len(matchRule)] = Separator
           r == IF dirOnly THEN SubSeq(matchRule, 1, Len(matchRule) - 1) ELSE matchRule
       IN (matchResult = "true") <=> /\ dirOnly => matchIsDir
                                     /\ \/ Match(r, matchPath)
                                        \/ \E e \in AncestorNames(matchPath) : Match(r, e)

----------------------------------------------------------------------------
(* The Watcher's properties (WatcherSpec, WatcherLive)                      *)

\* the directories a path lies beneath, from the nearest to watchDir excluded
Ancestors(path) ==
    {SubSeq(path, 1, i - 1) : i \in {j \in DOMAIN path : path[j] = Separator}}

IgnoredDirectory(d) == shouldIgnore(gitignoreRules, d, TRUE)

BeneathIgnored(path) == \E a \in Ancestors(path) : IgnoredDirectory(a)

\* a step of watchLoop that is one whole call of handleEvent
HandleStep == watchLoop = "busy" /\ watchLoop' = "select"

\* C22: no registered directory is ignored or lies beneath an ignored
\* directory (node_modules and what is in it are never registered), and no
\* file beneath an ignored directory is handed to the handler
NothingIgnoredIsRegistered ==
    /\ \A d \in watched : ~IgnoredDirectory(d) /\ ~BeneathIgnored(d)
    /\ watched \cap {NodeModules, NodeModulesPkg, SrcNodeModules} = {}
    /\ \A i \in DOMAIN handled.calls :
          /\ ~BeneathIgnored(handled.calls[i].path)
          /\ Dir(handled.calls[i].path) \notin {NodeModules, NodeModulesPkg, SrcNodeModules}

\* C22's case: after the walk, src/node_modules is created beneath the
\* registered src, its notification is handled and it is not registered
IgnoredDirectoryWitness ==
    /\ walk = "done"
    /\ Src \in watched
    /\ handled.event = [Name |-> SrcNodeModules, Op |-> {"CREATE"}]
    /\ handled.stat = "dir"
    /\ handled.added = {}

\* C23: a Start that has failed leaves no directory registered and no
\* watchLoop running
FailedStartLeavesNothing ==
    walk = "failed" => watched = {} /\ watchLoop \in {"none", "done"}

\* C24 as stated: no notification is handled while the walk is in progress
NothingHandledDuringWalk == ~(walk = "walking" /\ watchLoop = "busy")

\* C24: Start loads the rules, launches watchLoop and only then walks: from
\* the call of Start on the rules are loaded and watchLoop exists, and
\* nothing is loaded, launched or registered before
RulesThenLoopThenWalk ==
    /\ walk = "new" => gitignoreRules = <<>> /\ watchLoop = "none" /\ watched = {}
    /\ walk # "new" =>
          /\ watchLoop # "none"
          /\ Len(gitignoreRules) >= Len(DefaultRules)
          /\ SubSeq(gitignoreRules, 1, Len(DefaultRules)) = DefaultRules

\* C24's case: a notification from src has been handled and delivered while
\* the walk had directories left to visit
HandledDuringWalkWitness ==
    /\ walk = "walking"
    /\ todo # <<>>
    /\ handled.event # NoEvent
    /\ handled.calls # <<>>

\* the editor-temp and lock patterns as stated: each of ~, .swp, .swo and
\* .tmp at the end of the base name, .# at its start
TempOrLockName(basename) ==
    \/ HasSuffix(basename, <<"~">>)
    \/ HasSuffix(basename, <<".", "s", "w", "p">>)
    \/ HasSuffix(basename, <<".", "s", "w", "o">>)
    \/ HasSuffix(basename, <<".", "t", "m", "p">>)
    \/ HasPrefix(basename, <<".", "#">>)

\* C25: handleEvent, called for a create or write notification on a regular
\* file, hands the file's bytes to the handler exactly when the path is not
\* ignored, its extension is not binary, its base name is no temp or lock
\* name and the read succeeds; otherwise it hands over nothing; watchLoop
\* goes on either way
FileDeliveredExactlyWhenTracked ==
    [][(HandleStep /\ fsEvent.Op \cap {"CREATE", "WRITE"} # {} /\ handled'.stat = "file") =>
          /\ handled'.calls =
                IF /\ ~shouldIgnore(gitignoreRules, fsEvent.Name, FALSE)
                   /\ ToLower(Ext(fsEvent.Name)) \notin binaryExts
                   /\ ~TempOrLockName(Base(fsEvent.Name))
                   /\ ~handled'.read.err
                THEN <<[path |-> fsEvent.Name, contents |-> handled'.read.contents]>>
                ELSE <<>>
          /\ watchLoop' = "select"
      ]_<<watcherVars, outsideWatcher>>

\* the original statement of C26: a create or write notification registers a
\* directory that is not ignored and registers nothing for an ignored one
DirectoryRegisteredOnCreateOrWrite ==
    [][(HandleStep /\ fsEvent.Op \cap {"CREATE", "WRITE"} # {} /\ handled'.stat = "dir") =>
          IF IgnoredDirectory(fsEvent.Name)
          THEN watched' = watched
          ELSE watched' = watched \cup {fsEvent.Name}
      ]_<<watcherVars, outsideWatcher>>

\* C26: a create notification for a directory that is not ignored calls
\* fsWatcher.Add for it, and the directory is registered unless that call
\* fails; a write notification for a directory, and a notification for an
\* ignored directory, register nothing
DirectoryRegisteredOnCreate ==
    [][(HandleStep /\ fsEvent.Op \cap {"CREATE", "WRITE"} # {} /\ handled'.stat = "dir") =>
          LET register == "CREATE" \in fsEvent.Op /\ ~IgnoredDirectory(fsEvent.Name)
          IN /\ handled'.added = IF register THEN {fsEvent.Name} ELSE {}
             /\ watched' = IF register /\ handled'.addOk
                           THEN watched \cup {fsEvent.Name}
                           ELSE watched
      ]_<<watcherVars, outsideWatcher>>

\* C26's case: src, created after the walk, has been registered by the
\* handling of its create notification
DirectoryRegisteredWitness ==
    /\ walk = "done"
    /\ handled.event = [Name |-> Src, Op |-> {"CREATE"}]
    /\ handled.added = {Src}
    /\ handled.addOk
    /\ Src \in watched

\* C29: once Stop has been called, watchLoop returns and the fsWatcher is
\* closed
StopEndsWatchLoop == watcherStopCh ~> (watchLoop = "done" /\ fsWatcherClosed)

\* C29's case: Stop has been called while watchLoop is inside handleEvent
StopWhileHandlingWitness == watcherStopCh /\ watchLoop = "busy"

----------------------------------------------------------------------------
(* Manager.mu (LockSpec)                                                     *)

\* the goroutines between their Lock and their Unlock
InCriticalSection == {g \in Goroutines : pc[g] \in {"strategy", "SaveChunk", "Emit", "Unlock"}}

\* the goroutines between the removal of their batch and the end of its
\* saves and of the Emitter's notification
InBatch == {g \in Goroutines : pc[g] \in {"SaveChunk", "Emit"}}

\* C21: at most one of OnFileChange, ForceFlush, FlushAll and the tick is
\* inside its critical section, and the Strategy gets no change event while
\* a flush has removed chunks and has not finished saving and emitting them
OneAtATimeUnderMu ==
    [][/\ Cardinality(InCriticalSection') <= 1
       /\ (pc["OnFileChange"] = "strategy" /\ pc'["OnFileChange"] # "strategy") =>
             InBatch = {} /\ batch = <<>>
      ]_<<lockVars, outsideLock>>

\* C21's case: the tick has removed two chunks and saved one of them, while
\* a change event, ForceFlush and FlushAll wait at the lock
WaitingAtMuWitness ==
    /\ pc["flushLoop"] = "SaveChunk"
    /\ Len(batch) = 1
    /\ tracked = {}
    /\ \A g \in Goroutines \ {"flushLoop"} : pc[g] = "Lock"

----------------------------------------------------------------------------
(* The Strategy's table and the Manager's modes, continued (Spec)           *)

\* C31: no entry of the table carries a diff; the diff of a flushed Chunk is
\* generated in the step that removes its entry, from the initial and the
\* latest bytes the entry held then
DiffGeneratedAtFlush ==
    [][/\ \A p \in DOMAIN active' : active'[p].chunk.Diff = EmptyText
       /\ \A i \in DOMAIN last'.chunks :
             LET c == last'.chunks[i]
                 p == c.FilePath
             IN /\ p \in DOMAIN active
                /\ p \notin DOMAIN active'
                /\ c.Diff # EmptyText
                /\ c.Diff = generateDiff(active[p])
                /\ OldSide(c.Diff) = splitLines(active[p].initialContent)
                /\ NewSide(c.Diff) = splitLines(active[p].latestContent)
      ]_vars

\* C31's case: a tick has flushed a.txt, written with v1 and then v2; its
\* Chunk shows v1 removed and v2 added, and b.txt is still in the table
\* without a diff
DiffGeneratedWitness ==
    /\ last.op = "tick"
    /\ Len(last.chunks) = 1
    /\ last.chunks[1].Diff.lines = << <<MarkRemoved>> \o V1, <<MarkAdded>> \o V2 >>
    /\ DOMAIN active = {"b.txt"}

\* C34: while the Manager is Idle the Strategy's table is empty
IdleMeansEmptyTable == isIdle => DOMAIN active = {}

\* C34's case: a tick has just flushed both chunks and made the Manager Idle
IdleEntryWitness ==
    /\ isIdle
    /\ last.op = "tick"
    /\ last.flush = "all"
    /\ Len(last.chunks) = 2
    /\ DOMAIN active = {}

NextChunkStartsWherePreviousEnded ==
    [][\A i \in DOMAIN last.chunks :
          LET c == last.chunks[i]
              p == c.FilePath
          IN (last'.op = "onFileChange" /\ p \notin DOMAIN active /\ p \in DOMAIN active')
                => active'[p].initialHash = c.Hash
      ]_vars

\* C38: the Chunk flushed for a path right after a change event for that
\* path carries the hash of that event's content
FlushedHashIsLatestEventHash ==
    [][(last.op = "onFileChange") =>
          \A i \in DOMAIN last'.chunks :
             last'.chunks[i].FilePath = last.path
                => last'.chunks[i].Hash = hashContent(last.contents)
      ]_vars

\* C39: a ForceFlush whose SaveChunk fails returns the error, does not call
\* the emitter and leaves the path out of the table; a ForceFlush of the
\* same path right after it finds nothing: no call, no error, no change
FailedForceFlushDropsChunk ==
    [][/\ (/\ last'.op = "forceFlush"
           /\ \E i \in DOMAIN last'.calls : ~last'.calls[i].ok)
          => /\ last'.err
             /\ last'.path \in DOMAIN active
             /\ last'.path \notin DOMAIN active'
             /\ Len(last'.calls) = 1
             /\ last'.calls[1].call = "SaveChunk"
             /\ last'.calls[1].chunks = last'.chunks
             /\ EmitCalls(last'.calls) = << >>
       /\ (/\ last.op = "forceFlush"
           /\ last.err
           /\ last'.op = "forceFlush"
           /\ last'.path = last.path)
          => /\ last'.chunks = << >>
             /\ last'.calls = << >>
             /\ ~last'.err
             /\ active' = active
      ]_vars

\* C39's case: ForceFlush of a.txt has failed in the store; a.txt is gone
\* from the table while b.txt is still there
FailedForceFlushWitness ==
    /\ last.op = "forceFlush"
    /\ last.err
    /\ last.path = "a.txt"
    /\ Len(last.chunks) = 1
    /\ DOMAIN active = {"b.txt"}

\* C40: in every entry the initial hash is the hash of the initial bytes and
\* the chunk's hash the hash of the latest bytes; as long as an entry stays
\* in the table its id, path, start time, initial hash and initial bytes
\* stay what they were
EntryHashesMatchBytes ==
    [][\A p \in DOMAIN active' :
          /\ active'[p].initialHash = hashContent(active'[p].initialContent)
          /\ active'[p].chunk.Hash = hashContent(active'[p].latestContent)
          /\ p \in DOMAIN active =>
                /\ active'[p].chunk.ID = active[p].chunk.ID
                /\ active'[p].chunk.FilePath = active[p].chunk.FilePath
                /\ active'[p].chunk.StartTime = active[p].chunk.StartTime
                /\ active'[p].initialHash = active[p].initialHash
                /\ active'[p].initialContent = active[p].initialContent
      ]_vars

\* C40's case: a.txt, first written with v1, has just been written with v2
EntryUpdatedWitness ==
    /\ last.op = "onFileChange"
    /\ last.path = "a.txt"
    /\ last.contents = V2
    /\ "a.txt" \in DOMAIN active
    /\ active["a.txt"].initialContent = V1
    /\ active["a.txt"].latestContent = V2
    /\ active["a.txt"].chunk.EndTime > active["a.txt"].chunk.StartTime

\* the instant the model's clock reaches in Active mode
Horizon == MaxSlots * activeInterval

\* a step has just flushed the path's chunk and called SaveChunk for it
FlushedAndSaved(p) ==
    \E i \in DOMAIN last.chunks :
       /\ last.chunks[i].FilePath = p
       /\ \E j \in DOMAIN last.calls :
             last.calls[j].call = "SaveChunk" /\ last.calls[j].chunks = <<last.chunks[i]>>

\* the path's entry was last updated early enough for flushTimeout to pass
\* before the clock's horizon
DueBeforeHorizon(p) == p \in DOMAIN active /\ active[p].lastUpdate + flushTimeout <= Horizon

\* C36: while flushLoop runs and ticks keep coming, the entry of a.txt, once
\* it has been updated for the last time, is flushed and handed to the
\* store, whether b.txt keeps changing or not (until the flush, a change of
\* a.txt with another hash may still move the entry's last update, and in
\* the model past the reach of the clock)
StaleChunkIsFlushed ==
    DueBeforeHorizon("a.txt")
       ~> (\/ FlushedAndSaved("a.txt")
           \/ ("a.txt" \in DOMAIN active /\ ~DueBeforeHorizon("a.txt")))

\* the steps that take the tick are the steps of the timer callback
TickTakenIsTick == [][TickTaken <=> last'.op = "tick"]_vars

\* C36's case: a tick has flushed a.txt as stale, flushTimeout after its
\* only change, while b.txt, changed since, stays in the table
StaleChunkFlushedWitness ==
    /\ last.op = "tick"
    /\ last.flush = "stale"
    /\ FlushedAndSaved("a.txt")
    /\ "b.txt" \in DOMAIN active
    /\ now = flushTimeout

----------------------------------------------------------------------------
(* The stores (StoreSpec)                                                   *)

\* the chunks a store holds under an id
JSONRecords(chunks, id) == {i \in DOMAIN chunks : chunks[i].ID = id}
SQLiteRecords(rows, id) == {r \in rows : r.chunk.ID = id}

\* the chunks a store holds, whatever their order and their created_at
JSONHeld(chunks) == {chunks[i] : i \in DOMAIN chunks}
SQLiteHeld(rows) == {r.chunk : r \in rows}

\* C32: after SaveChunk(c) each store holds one record under c's id, which
\* is c, and under every other id what it held before; a SaveChunk(c) right
\* after a SaveChunk(c) leaves the chunks of both stores as they were
SaveChunkIsUpsertById ==
    [][storeLast'.op = "SaveChunk" =>
         LET c == storeLast'.chunk
         IN /\ \A id \in StoreIDs :
                  /\ Cardinality(JSONRecords(jsonChunks', id)) <= 1
                  /\ Cardinality(SQLiteRecords(sqlChunks', id)) <= 1
            /\ JSONHeld(jsonChunks') = {x \in JSONHeld(jsonChunks) : x.ID # c.ID} \cup {c}
            /\ SQLiteHeld(sqlChunks') = {x \in SQLiteHeld(sqlChunks) : x.ID # c.ID} \cup {c}
            /\ (storeLast.op = "SaveChunk" /\ storeLast.chunk = c) =>
                  /\ jsonChunks' = jsonChunks
                  /\ SQLiteHeld(sqlChunks') = SQLiteHeld(sqlChunks)
      ]_<<storeVars, outsideStore>>

\* C32's case: the first chunk of a.txt, saved before the chunk of b.txt,
\* has been saved again with another diff
SavedAgainWitness ==
    /\ storeLast.op = "SaveChunk"
    /\ storeLast.chunk = [ID |-> "a.txt-0", FilePath |-> "a.txt", Diff |-> "d2"]
    /\ Len(jsonChunks) = 2
    /\ jsonChunks[1] = storeLast.chunk
    /\ jsonChunks[2].ID = "b.txt-0"
    /\ Cardinality(sqlChunks) = 2

\* C33: FindChunks returns the stored chunks of the path and
\* GetRecentChunks at most limit chunks, the most recently saved first
MostRecentFirst ==
    /\ storeLast.op = "FindChunks" =>
          LET want == SelectSeq(recency, LAMBDA c : c.FilePath = storeLast.filePath)
          IN storeLast.json = want /\ storeLast.sql = want
    /\ storeLast.op = "GetRecentChunks" =>
          LET n == IF storeLast.limit > Len(recency) THEN Len(recency) ELSE storeLast.limit
              want == SubSeq(recency, 1, n)
          IN storeLast.json = want /\ storeLast.sql = want

============================================================================
